---- MODULE Spec2Model ----
(***************************************************************************)
(* A model of the Vatu chess engine: the bitboard Board (board.rs), Move   *)
(* apply/unmake (movement.rs), the legal move generator (rules.rs), the    *)
(* engine and its search worker (engine.rs, analysis.rs) and the UCI       *)
(* controller (uci.rs).                                                    *)
(*                                                                         *)
(* A Bitboard (u64) is modelled as the set of the squares whose bit is     *)
(* set: | is \cup, & is \cap, & !x is \ x.  A castling mask (u8) is        *)
(* modelled the same way, as the set of its flag bits.  A rules.rs Pos     *)
(* (file, rank) is identified with the Square file * 8 + rank.             *)
(***************************************************************************)
EXTENDS Integers, Sequences, FiniteSets, TLC

\* ------------------------------------------------------------------------
\* board.rs: colors, pieces, squares
\* ------------------------------------------------------------------------
WHITE == 0
BLACK == 1
opposite(color) == 1 - color

PAWN == 0
BISHOP == 1
KNIGHT == 2
ROOK == 3
QUEEN == 4
KING == 5
NUM_PIECES == 6

\* Option::None for an Option<Piece> or an Option<Square>.
None == 0 - 1

NUM_SQUARES == 64
Squares == 0 .. (NUM_SQUARES - 1)
Colors == {WHITE, BLACK}
Pieces == 0 .. (NUM_PIECES - 1)

sq(file, rank) == file * 8 + rank
sq_file(square) == square \div 8
sq_rank(square) == square % 8
bit_pos(square) == {square}

RANK_2 == 1
RANK_7 == 6

\* The squares named by the castling code: sq(file, rank).
A1 == 0
C1 == 16
D1 == 24
E1 == 32
F1 == 40
G1 == 48
H1 == 56
A8 == 7
C8 == 23
D8 == 31
E8 == 39
F8 == 47
G8 == 55
H8 == 63

\* Board::new_empty
new_empty ==
    [colors |-> [c \in Colors |-> {}], pieces |-> [p \in Pieces |-> {}]]

combined(board) == board.colors[WHITE] \cup board.colors[BLACK]
by_color(board, color) == board.colors[color]
is_empty(board, square) == square \notin combined(board)

\* get_color_on / get_piece_on panic on an empty square: the value of the
\* panicking branch (None) is never used, callers test the square first.
get_color_on(board, square) ==
    IF square \in board.colors[WHITE] THEN WHITE
    ELSE IF square \in board.colors[BLACK] THEN BLACK
    ELSE None

get_piece_on(board, square) ==
    IF square \in board.pieces[PAWN] THEN PAWN
    ELSE IF square \in board.pieces[BISHOP] THEN BISHOP
    ELSE IF square \in board.pieces[KNIGHT] THEN KNIGHT
    ELSE IF square \in board.pieces[ROOK] THEN ROOK
    ELSE IF square \in board.pieces[QUEEN] THEN QUEEN
    ELSE IF square \in board.pieces[KING] THEN KING
    ELSE None

set_square(board, square, color, piece) ==
    [colors |-> [c \in Colors |->
                    IF c = color THEN board.colors[c] \cup bit_pos(square)
                    ELSE board.colors[c] \ bit_pos(square)],
     pieces |-> [board.pieces EXCEPT ![piece] = @ \cup bit_pos(square)]]

clear_square(board, square, color, piece) ==
    [colors |-> [board.colors EXCEPT ![color] = @ \ bit_pos(square)],
     pieces |-> [board.pieces EXCEPT ![piece] = @ \ bit_pos(square)]]

\* move_square panics when source is empty (get_color_on(source)).
move_square_panics(board, source) == is_empty(board, source)

\* A variant of move_square that does not clear the destination first.
move_square_over(board, source, dest) ==
    set_square(clear_square(board, source, get_color_on(board, source),
                            get_piece_on(board, source)),
               dest, get_color_on(board, source), get_piece_on(board, source))

move_square(board, source, dest) ==
    LET source_color == get_color_on(board, source)
        source_piece == get_piece_on(board, source)
        b1 == clear_square(board, source, source_color, source_piece)
        b2 == IF ~is_empty(b1, dest)
              THEN clear_square(b1, dest, get_color_on(b1, dest), get_piece_on(b1, dest))
              ELSE b1
    IN  set_square(b2, dest, source_color, source_piece)

set_piece(board, square, from_piece, to_piece) ==
    [colors |-> board.colors,
     pieces |-> [p \in Pieces |->
                    IF p = to_piece THEN board.pieces[p] \cup bit_pos(square)
                    ELSE IF p = from_piece THEN board.pieces[p] \ bit_pos(square)
                    ELSE board.pieces[p]]]

\* The first square (in index order) holding a king of this color, or None.
find_king(board, color) ==
    LET king_bb == board.colors[color] \cap board.pieces[KING]
    IN  IF king_bb = {} THEN None
        ELSE CHOOSE s \in king_bb : \A t \in king_bb : s <= t

\* ------------------------------------------------------------------------
\* Precomputed tables (generated at build time; described in the design
\* document, section 4.1)
\* ------------------------------------------------------------------------
on_board(file, rank) == file >= 0 /\ file <= 7 /\ rank >= 0 /\ rank <= 7

KNIGHT_RAYS(square) ==
    {sq(sq_file(square) + d[1], sq_rank(square) + d[2]) :
        d \in {e \in {<<1, 2>>, <<2, 1>>, <<2, -1>>, <<1, -2>>,
                      <<-1, -2>>, <<-2, -1>>, <<-2, 1>>, <<-1, 2>>} :
                  on_board(sq_file(square) + e[1], sq_rank(square) + e[2])}}

KING_RAYS(square) ==
    {sq(sq_file(square) + d[1], sq_rank(square) + d[2]) :
        d \in {e \in {<<1, 0>>, <<1, 1>>, <<0, 1>>, <<-1, 1>>,
                      <<-1, 0>>, <<-1, -1>>, <<0, -1>>, <<1, -1>>} :
                  on_board(sq_file(square) + e[1], sq_rank(square) + e[2])}}

PAWN_CAPTURES(color, square) ==
    LET rank == sq_rank(square) + (IF color = WHITE THEN 1 ELSE -1)
    IN  {sq(f, rank) : f \in {g \in {sq_file(square) - 1, sq_file(square) + 1} :
                                  on_board(g, rank)}}

PAWN_PROGRESSES(color, square) ==
    LET file == sq_file(square)
        rank == sq_rank(square)
        dir == IF color = WHITE THEN 1 ELSE -1
        start == IF color = WHITE THEN RANK_2 ELSE RANK_7
    IN  {sq(file, r) : r \in {x \in {rank + dir} \cup
                                    (IF rank = start THEN {rank + 2 * dir} ELSE {}) :
                                on_board(file, x)}}

\* ------------------------------------------------------------------------
\* board.rs: rays
\* ------------------------------------------------------------------------
BISHOP_DIRS == <<<<1, 1>>, <<1, -1>>, <<-1, -1>>, <<-1, 1>>>>
ROOK_DIRS == <<<<1, 0>>, <<0, 1>>, <<-1, 0>>, <<0, -1>>>>
QUEEN_DIRS == <<<<1, 0>>, <<1, 1>>, <<0, 1>>, <<-1, 1>>,
                <<-1, 0>>, <<-1, -1>>, <<0, -1>>, <<1, -1>>>>

\* The inner loop of get_blockable_rays: one direction, from (ray_f, ray_r).
RECURSIVE blockable_ray(_, _, _, _, _, _)
blockable_ray(board, color, dir, ray_f, ray_r, include_protections) ==
    LET f == ray_f + dir[1]
        r == ray_r + dir[2]
        bp == bit_pos(sq(f, r))
    IN  IF f < 0 \/ f > 7 \/ r < 0 \/ r > 7 THEN {}
        ELSE IF ~include_protections /\ (by_color(board, color) \cap bp) # {} THEN {}
        ELSE IF (combined(board) \cap bp) # {} THEN bp
        ELSE bp \cup blockable_ray(board, color, dir, f, r, include_protections)

get_blockable_rays(board, square, color, directions, include_protections) ==
    UNION {blockable_ray(board, color, directions[i], sq_file(square), sq_rank(square),
                         include_protections) : i \in DOMAIN directions}

\* A variant of get_pawn_progresses that lets a pawn jump over a piece.
get_pawn_progresses_over(board, square, color) ==
    PAWN_PROGRESSES(color, square) \ combined(board)

get_pawn_progresses(board, square, color) ==
    LET progress_bb == PAWN_PROGRESSES(color, square) \ combined(board)
    IN  IF color = WHITE /\ sq_rank(square) = RANK_2
        THEN IF (combined(board) \cap bit_pos(sq(sq_file(square), sq_rank(square) + 1))) # {}
             THEN progress_bb \ bit_pos(sq(sq_file(square), sq_rank(square) + 2))
             ELSE progress_bb
        ELSE IF color = BLACK /\ sq_rank(square) = RANK_7
        THEN IF (combined(board) \cap bit_pos(sq(sq_file(square), sq_rank(square) - 1))) # {}
             THEN progress_bb \ bit_pos(sq(sq_file(square), sq_rank(square) - 2))
             ELSE progress_bb
        ELSE progress_bb

get_pawn_captures(board, square, color) ==
    PAWN_CAPTURES(color, square) \cap by_color(board, opposite(color))
get_pawn_protections(board, square, color) == PAWN_CAPTURES(color, square)
get_bishop_full_rays(board, square, color) ==
    get_blockable_rays(board, square, color, BISHOP_DIRS, TRUE)
get_rook_full_rays(board, square, color) ==
    get_blockable_rays(board, square, color, ROOK_DIRS, TRUE)
get_queen_full_rays(board, square, color) ==
    get_blockable_rays(board, square, color, QUEEN_DIRS, TRUE)
get_knight_full_rays(board, square) == KNIGHT_RAYS(square)
get_king_full_rays(board, square) == KING_RAYS(square)

\* The squares attacked (or protected) by the pieces of `color`.
get_full_rays(board, color) ==
    UNION {LET piece == get_piece_on(board, square)
           IN  IF piece = PAWN THEN get_pawn_protections(board, square, color)
               ELSE IF piece = BISHOP THEN get_bishop_full_rays(board, square, color)
               ELSE IF piece = KNIGHT THEN get_knight_full_rays(board, square)
               ELSE IF piece = ROOK THEN get_rook_full_rays(board, square, color)
               ELSE IF piece = QUEEN THEN get_queen_full_rays(board, square, color)
               ELSE IF piece = KING THEN get_king_full_rays(board, square)
               ELSE {}
           : square \in by_color(board, color)}

\* ------------------------------------------------------------------------
\* castling.rs / rules.rs: castling flags (a mask is the set of its flags)
\* ------------------------------------------------------------------------
CASTLE_WH_K == 1
CASTLE_WH_Q == 2
CASTLE_BL_K == 4
CASTLE_BL_Q == 8
CASTLE_WH_MASK == {CASTLE_WH_K, CASTLE_WH_Q}
CASTLE_BL_MASK == {CASTLE_BL_K, CASTLE_BL_Q}

CASTLING_WH_K == 1
CASTLING_WH_Q == 2
CASTLING_BL_K == 4
CASTLING_BL_Q == 8
CASTLING_WH_MASK == {CASTLING_WH_K, CASTLING_WH_Q}
CASTLING_BL_MASK == {CASTLING_BL_K, CASTLING_BL_Q}
CASTLING_K_MASK == {CASTLING_WH_K, CASTLING_BL_K}
CASTLING_Q_MASK == {CASTLING_WH_Q, CASTLING_BL_Q}
CASTLING_MASK == CASTLING_WH_MASK \cup CASTLING_BL_MASK
\* (files the king crosses, side mask), king side first.
CASTLING_SIDES == <<<<<<5, 6>>, CASTLING_K_MASK>>, <<<<2, 3>>, CASTLING_Q_MASK>>>>

\* GameState::new
GameState_new ==
    [color |-> WHITE, castling |-> CASTLING_MASK, en_passant |-> None,
     halfmove |-> 0, fullmove |-> 1]

\* ------------------------------------------------------------------------
\* rules.rs: the square accessors it imports from the array board.  A square
\* value is <<color, piece>>, or SQ_E for an empty square.
\* ------------------------------------------------------------------------
POS_MIN == 0
POS_MAX == 7
SQ_E == <<None, None>>
SQ_Q == QUEEN
is_valid_pos(f, r) == f >= POS_MIN /\ f <= POS_MAX /\ r >= POS_MIN /\ r <= POS_MAX
get_square(board, p) ==
    IF is_empty(board, p) THEN SQ_E
    ELSE <<get_color_on(board, p), get_piece_on(board, p)>>
get_color(square_value) == square_value[1]
is_color(square_value, color) == square_value[1] = color
is_piece(square_value, piece) == square_value[2] = piece
is_white(square_value) == square_value[1] = WHITE
is_black(square_value) == square_value[1] = BLACK

\* move_piece copies whatever `from` holds (a piece or nothing) to `to`.
move_piece(board, from, to) ==
    IF is_empty(board, from)
    THEN IF is_empty(board, to) THEN board
         ELSE clear_square(board, to, get_color_on(board, to), get_piece_on(board, to))
    ELSE move_square(board, from, to)

\* ------------------------------------------------------------------------
\* rules.rs: moves.  A Move is <<source, dest, promotion>>.
\* ------------------------------------------------------------------------
get_castle(m) ==
    IF m[1] = E1
    THEN IF m[2] = C1 THEN CASTLING_WH_Q
         ELSE IF m[2] = G1 THEN CASTLING_WH_K
         ELSE None
    ELSE IF m[1] = E8
    THEN IF m[2] = C8 THEN CASTLING_BL_Q
         ELSE IF m[2] = G8 THEN CASTLING_BL_K
         ELSE None
    ELSE None

\* Defined for the four single flags; any other mask panics.
get_castle_move(castle) ==
    IF castle = {CASTLING_WH_Q} THEN <<E1, C1, None>>
    ELSE IF castle = {CASTLING_WH_K} THEN <<E1, G1, None>>
    ELSE IF castle = {CASTLING_BL_Q} THEN <<E8, C8, None>>
    ELSE <<E8, G8, None>>

apply_move_to_board(board, m) ==
    LET castle == get_castle(m)
    IN  IF castle = CASTLING_WH_K THEN move_piece(move_piece(board, E1, G1), H1, F1)
        ELSE IF castle = CASTLING_WH_Q THEN move_piece(move_piece(board, E1, C1), A1, D1)
        ELSE IF castle = CASTLING_BL_K THEN move_piece(move_piece(board, E8, G8), H8, F8)
        ELSE IF castle = CASTLING_BL_Q THEN move_piece(move_piece(board, E8, C8), A8, D8)
        ELSE move_piece(board, m[1], m[2])

apply_move_to_state(game_state, m) ==
    [game_state EXCEPT !.color = opposite(game_state.color)]

\* apply_move_to: the pair <<board, game_state>> after the move.
apply_move_to(board, game_state, m) ==
    LET new_board == apply_move_to_board(board, m)
        gs == apply_move_to_state(game_state, m)
        castle == get_castle(m)
    IN  <<new_board,
          IF castle \in {CASTLING_WH_K, CASTLING_WH_Q}
          THEN [gs EXCEPT !.castling = @ \ CASTLING_WH_MASK]
          ELSE IF castle \in {CASTLING_BL_K, CASTLING_BL_Q}
          THEN [gs EXCEPT !.castling = @ \ CASTLING_BL_MASK]
          ELSE gs>>

\* The concatenation of the lists lists[lo], ..., lists[hi].
RECURSIVE flatten(_, _, _)
flatten(lists, lo, hi) ==
    IF lo = hi THEN lists[lo]
    ELSE flatten(lists, lo, (lo + hi) \div 2) \o flatten(lists, (lo + hi) \div 2 + 1, hi)

\* The list of moves a loop builds, where pushed[i] is the list of the moves
\* its iteration i pushes.  The iterations are evaluated once, in order.
pushed_by(pushed) ==
    CHOOSE moves \in {flatten(lists, 1, Len(lists)) : lists \in {pushed \o <<>>}} : TRUE

\* Some(move) is <<move>>, None is <<>>.
\* A variant of move_on_enemy that forgets the promotion of a capturing pawn.
move_on_enemy_plain(piece1, pos1, piece2, pos2) ==
    IF is_color(piece2, opposite(get_color(piece1)))
    THEN <<<<pos1, pos2, None>>>>
    ELSE <<>>

move_on_enemy(piece1, pos1, piece2, pos2) ==
    LET color1 == get_color(piece1)
    IN  IF is_color(piece2, opposite(color1))
        THEN LET prom == IF is_piece(piece1, PAWN) /\
                            ((is_white(piece1) /\ sq_rank(pos2) = POS_MAX) \/
                             (is_black(piece1) /\ sq_rank(pos2) = POS_MIN))
                         THEN SQ_Q ELSE None
             IN  <<<<pos1, pos2, prom>>>>
        ELSE <<>>

RECURSIVE get_player_moves(_, _, _)

is_attacked(board, game_state, at) ==
    LET enemy_game_state == [game_state EXCEPT !.color = opposite(game_state.color)]
        enemy_moves == get_player_moves(board, enemy_game_state, FALSE)
    IN  SelectSeq(enemy_moves, LAMBDA m : m[2] = at) # <<>>

\* hypothetic_board is bound to the value of the `let` of the code.
is_illegal(board, game_state, m) ==
    LET found == find_king(board, game_state.color)
        king_p == IF m[1] = found THEN m[2] ELSE found
    IN  IF found # None
        THEN \E hypothetic_board \in {apply_move_to_board(board, m)} :
                 is_attacked(hypothetic_board, game_state, king_p)
        ELSE FALSE

can_register(commit, board, game_state, m) ==
    ~commit \/ ~is_illegal(board, game_state, m)

\* <<m>> when the move can be registered, <<>> otherwise.
register(commit, board, game_state, m) ==
    IF can_register(commit, board, game_state, m) THEN <<m>> ELSE <<>>

\* Target of a one-step piece (knight, king): empty square or enemy piece.
step_moves(board, at, piece, game_state, commit, f, r) ==
    IF ~is_valid_pos(f, r) THEN <<>>
    ELSE LET p == sq(f, r)
         IN  IF is_empty(board, p)
             THEN register(commit, board, game_state, <<at, p, None>>)
             ELSE LET found == move_on_enemy(piece, at, get_square(board, p), p)
                  IN  IF found # <<>>
                      THEN register(commit, board, game_state, found[1])
                      ELSE <<>>

get_pawn_moves(board, at, piece, game_state, commit) ==
    LET f == sq_file(at)
        r == sq_rank(at)
        dir == IF is_white(piece) THEN 1 ELSE 0 - 1
        move_len == IF (is_white(piece) /\ r = 1) \/ (is_black(piece) /\ r = 6)
                    THEN 2 ELSE 1
        out(i) == (dir > 0 /\ r + dir * i > POS_MAX) \/ (dir < 0 /\ r + dir * i < POS_MIN)
        forward_moves(i) ==
            LET forward_r == r + dir * i
                forward == sq(f, forward_r)
            IN  IF is_empty(board, forward) /\
                   (i = 1 \/ is_empty(board, sq(f, forward_r - dir)))
                THEN LET prom == IF (dir > 0 /\ forward_r = POS_MAX) \/
                                    (dir < 0 /\ forward_r = POS_MIN)
                                 THEN SQ_Q ELSE None
                     IN  register(commit, board, game_state, <<at, forward, prom>>)
                ELSE <<>>
        diag_moves(df) ==
            IF df >= POS_MIN /\ df <= POS_MAX
            THEN LET diag == sq(df, r + dir)
                     found == move_on_enemy(piece, at, get_square(board, diag), diag)
                 IN  IF found # <<>>
                     THEN register(commit, board, game_state, found[1])
                     ELSE <<>>
            ELSE <<>>
    IN  IF out(1) THEN <<>>
        ELSE forward_moves(1) \o diag_moves(f - 1) \o diag_moves(f + 1) \o
             (IF move_len = 2 /\ ~out(2) THEN forward_moves(2) ELSE <<>>)

\* The body of the loops of get_bishop_moves and get_rook_moves for one
\* direction at one distance.  views[dir] is still true when no square nearer
\* than dist in that direction holds a piece.
slider_step(board, at, piece, game_state, commit, offset, dist) ==
    LET pf(d) == sq_file(at) + offset[1] * d
        pr(d) == sq_rank(at) + offset[2] * d
        views_dir == \A d \in 1..(dist - 1) :
                         is_valid_pos(pf(d), pr(d)) => is_empty(board, sq(pf(d), pr(d)))
    IN  IF ~views_dir \/ ~is_valid_pos(pf(dist), pr(dist)) THEN <<>>
        ELSE IF is_empty(board, sq(pf(dist), pr(dist)))
        THEN register(commit, board, game_state, <<at, sq(pf(dist), pr(dist)), None>>)
        ELSE step_moves(board, at, piece, game_state, commit, pf(dist), pr(dist))

\* The loops `for dist in 1..=7` and, inside, over the four directions:
\* iteration k has dist = (k - 1) \div 4 + 1 and dir = (k - 1) % 4 + 1.
slider_moves(board, at, piece, game_state, commit, dirs) ==
    pushed_by([k \in 1..28 |->
                  slider_step(board, at, piece, game_state, commit,
                              dirs[((k - 1) % 4) + 1], ((k - 1) \div 4) + 1)])

get_bishop_moves(board, at, piece, game_state, commit) ==
    slider_moves(board, at, piece, game_state, commit,
                 <<<<1, 0 - 1>>, <<1, 1>>, <<0 - 1, 1>>, <<0 - 1, 0 - 1>>>>)

get_rook_moves(board, at, piece, game_state, commit) ==
    slider_moves(board, at, piece, game_state, commit,
                 <<<<0, 1>>, <<1, 0>>, <<0, 0 - 1>>, <<0 - 1, 0>>>>)

get_queen_moves(board, at, piece, game_state, commit) ==
    get_bishop_moves(board, at, piece, game_state, commit) \o
    get_rook_moves(board, at, piece, game_state, commit)

\* The loop of get_knight_moves and of the steps of get_king_moves over the
\* eight offsets, in order.
offset_moves(board, at, piece, game_state, commit, offsets) ==
    pushed_by([i \in 1..8 |->
                  step_moves(board, at, piece, game_state, commit,
                             sq_file(at) + offsets[i][1], sq_rank(at) + offsets[i][2])])

\* A variant of get_knight_moves with the steps of a king for offsets.
get_knight_moves_by_steps(board, at, piece, game_state, commit) ==
    offset_moves(board, at, piece, game_state, commit,
                 <<<<1, 0>>, <<1, 1>>, <<0, 1>>, <<0 - 1, 1>>,
                   <<0 - 1, 0>>, <<0 - 1, 0 - 1>>, <<0, 0 - 1>>, <<1, 0 - 1>>>>)

get_knight_moves(board, at, piece, game_state, commit) ==
    offset_moves(board, at, piece, game_state, commit,
                 <<<<1, 2>>, <<2, 1>>, <<2, 0 - 1>>, <<1, 0 - 2>>,
                   <<0 - 1, 0 - 2>>, <<0 - 2, 0 - 1>>, <<0 - 2, 1>>, <<0 - 1, 2>>>>)

\* The castling part of get_king_moves for one entry of CASTLING_SIDES.
castling_side_moves(board, at, game_state, commit, side) ==
    LET castling_rank == IF game_state.color = WHITE THEN 0 ELSE 7
        castling_color_mask == IF game_state.color = WHITE
                               THEN CASTLING_WH_MASK ELSE CASTLING_BL_MASK
        path == side[1]
        castling_side_mask == side[2]
    IN  IF ((game_state.castling \cap castling_color_mask) \cup castling_side_mask) # {}
        THEN LET clear_path ==
                     \A i \in DOMAIN path :
                         LET p == sq(path[i], castling_rank)
                         IN  is_empty(board, p) /\
                             ~is_illegal(board, game_state, <<at, p, None>>)
             IN  IF clear_path
                 THEN LET castle == CASTLING_K_MASK \cap castling_color_mask
                      IN  register(commit, board, game_state, get_castle_move(castle))
                 ELSE <<>>
        ELSE <<>>

get_king_moves(board, at, piece, game_state, commit) ==
    LET moves == offset_moves(board, at, piece, game_state, commit,
                     <<<<0 - 1, 1>>, <<0, 1>>, <<1, 1>>, <<0 - 1, 0>>, <<1, 0>>,
                       <<0 - 1, 0 - 1>>, <<0, 0 - 1>>, <<1, 0 - 1>>>>)
        castling_rank == IF game_state.color = WHITE THEN 0 ELSE 7
    IN  IF ~commit THEN moves
        ELSE IF sq_rank(at) = castling_rank /\ ~is_attacked(board, game_state, at)
        THEN moves \o
             pushed_by([i \in 1..2 |->
                           castling_side_moves(board, at, game_state, commit,
                                               CASTLING_SIDES[i])])
        ELSE moves

get_piece_moves(board, at, game_state, commit) ==
    LET p == get_square(board, at)
    IN  CASE is_piece(p, PAWN) -> get_pawn_moves(board, at, p, game_state, commit)
          [] is_piece(p, BISHOP) -> get_bishop_moves(board, at, p, game_state, commit)
          [] is_piece(p, KNIGHT) -> get_knight_moves(board, at, p, game_state, commit)
          [] is_piece(p, ROOK) -> get_rook_moves(board, at, p, game_state, commit)
          [] is_piece(p, QUEEN) -> get_queen_moves(board, at, p, game_state, commit)
          [] is_piece(p, KING) -> get_king_moves(board, at, p, game_state, commit)
          [] OTHER -> <<>>

\* The body of the double loop of get_player_moves for the square (f, r).
square_moves(board, game_state, commit, f, r) ==
    IF is_empty(board, sq(f, r)) THEN <<>>
    ELSE IF is_color(get_square(board, sq(f, r)), game_state.color)
    THEN get_piece_moves(board, sq(f, r), game_state, commit)
    ELSE <<>>

\* The loops `for r in 0..8` and, inside, `for f in 0..8`: iteration i looks
\* at the square of rank (i - 1) \div 8 and file (i - 1) % 8.
get_player_moves(board, game_state, commit) ==
    pushed_by([i \in 1..64 |->
                  square_moves(board, game_state, commit, (i - 1) % 8, (i - 1) \div 8)])

\* ------------------------------------------------------------------------
\* board.rs: factories
\* ------------------------------------------------------------------------
\* Board::new: the board of a new game.
Board_new ==
    [colors |-> (WHITE :> {s \in Squares : sq_rank(s) \in {0, 1}}) @@
                (BLACK :> {s \in Squares : sq_rank(s) \in {6, 7}}),
     pieces |-> (PAWN :> {s \in Squares : sq_rank(s) \in {1, 6}}) @@
                (BISHOP :> {s \in Squares : sq_rank(s) \in {0, 7} /\ sq_file(s) \in {2, 5}}) @@
                (KNIGHT :> {s \in Squares : sq_rank(s) \in {0, 7} /\ sq_file(s) \in {1, 6}}) @@
                (ROOK :> {s \in Squares : sq_rank(s) \in {0, 7} /\ sq_file(s) \in {0, 7}}) @@
                (QUEEN :> {s \in Squares : sq_rank(s) \in {0, 7} /\ sq_file(s) = 3}) @@
                (KING :> {s \in Squares : sq_rank(s) \in {0, 7} /\ sq_file(s) = 4})]

\* A FEN string is a sequence of one-character strings.
fen_piece_chars == {"r", "n", "b", "q", "k", "p", "R", "N", "B", "Q", "K", "P"}
fen_digit_chars == {"0", "1", "2", "3", "4", "5", "6", "7", "8", "9"}
fen_char_color(c) == IF c \in {"r", "n", "b", "q", "k", "p"} THEN BLACK ELSE WHITE
fen_char_piece(c) ==
    IF c \in {"r", "R"} THEN ROOK
    ELSE IF c \in {"n", "N"} THEN KNIGHT
    ELSE IF c \in {"b", "B"} THEN BISHOP
    ELSE IF c \in {"q", "Q"} THEN QUEEN
    ELSE IF c \in {"k", "K"} THEN KING
    ELSE PAWN
to_digit(c) ==
    IF c = "0" THEN 0 ELSE IF c = "1" THEN 1 ELSE IF c = "2" THEN 2 ELSE IF c = "3" THEN 3
    ELSE IF c = "4" THEN 4 ELSE IF c = "5" THEN 5 ELSE IF c = "6" THEN 6
    ELSE IF c = "7" THEN 7 ELSE IF c = "8" THEN 8 ELSE 9

\* Board::new_from_fen reads the characters in order and breaks on the first
\* one that is no piece, no digit and no '/': fen_end is its index.
fen_end(fen) ==
    LET bad == {i \in DOMAIN fen :
                   fen[i] \notin fen_piece_chars \cup fen_digit_chars \cup {"/"}}
    IN  IF bad = {} THEN Len(fen) + 1 ELSE CHOOSE i \in bad : \A j \in bad : i <= j

\* The square sq(f, r) the loop has reached before it reads character i: r
\* has gone down by one per '/', f counts the pieces and the digits read
\* since the last '/'.
fen_square(fen, i) ==
    LET slashes == {j \in 1..(i - 1) : fen[j] = "/"}
        start == IF slashes = {} THEN 0 ELSE CHOOSE j \in slashes : \A k \in slashes : k <= j
        files == {<<j, k>> \in ((start + 1)..(i - 1)) \X (1..9) :
                     k <= (IF fen[j] \in fen_piece_chars THEN 1 ELSE to_digit(fen[j]))}
    IN  sq(Cardinality(files), 7 - Cardinality(slashes))

\* The board after the loop: each piece character has called set_square.
new_from_fen(fen) ==
    LET placed == {<<i, fen_square(fen, i)>> :
                      i \in {k \in 1..(fen_end(fen) - 1) : fen[k] \in fen_piece_chars}}
        last == {p \in placed : \A q \in placed : q[2] = p[2] => q[1] <= p[1]}
    IN  [colors |-> [c \in Colors |->
                        {p[2] : p \in {q \in last : fen_char_color(fen[q[1]]) = c}}],
         pieces |-> [pc \in Pieces |->
                        {p[2] : p \in {q \in placed : fen_char_piece(fen[q[1]]) = pc}}]]

\* ------------------------------------------------------------------------
\* movement.rs: Move.  A Move is a record; Option values use None.
\* ------------------------------------------------------------------------
Move_new(source, dest) ==
    [source |-> source, dest |-> dest, promotion |-> None, capture |-> None,
     old_castles |-> {}]

Move_new_promotion(source, dest, promotion) ==
    [source |-> source, dest |-> dest, promotion |-> promotion, capture |-> None,
     old_castles |-> {}]

\* Move::get_castle
Move_get_castle(m) ==
    IF m.source = E1 /\ m.dest = C1 THEN CASTLE_WH_Q
    ELSE IF m.source = E1 /\ m.dest = G1 THEN CASTLE_WH_K
    ELSE IF m.source = E8 /\ m.dest = C8 THEN CASTLE_BL_Q
    ELSE IF m.source = E8 /\ m.dest = G8 THEN CASTLE_BL_K
    ELSE None

\* The two move_square calls of a castle: <<king from, king to, rook from, rook to>>.
castle_squares(castle) ==
    IF castle = CASTLE_WH_K THEN <<E1, G1, H1, F1>>
    ELSE IF castle = CASTLE_WH_Q THEN <<E1, C1, A1, D1>>
    ELSE IF castle = CASTLE_BL_K THEN <<E8, G8, H8, F8>>
    ELSE <<E8, C8, A8, D8>>

\* Move::apply_to_board panics when get_piece_on or move_square reads an
\* empty square.
apply_to_board_panics(m, board) ==
    \/ is_empty(board, m.source)
    \/ /\ get_piece_on(board, m.source) = KING
       /\ Move_get_castle(m) # None
       /\ LET c == castle_squares(Move_get_castle(m))
          IN  move_square_panics(move_square(board, c[1], c[2]), c[3])

\* Move::apply_to_board: <<the move with its capture field, the board>>.
apply_to_board(m, board) ==
    LET piece == get_piece_on(board, m.source)
        castle == Move_get_castle(m)
    IN  IF piece = KING /\ castle # None
        THEN LET c == castle_squares(castle)
             IN  <<m, move_square(move_square(board, c[1], c[2]), c[3], c[4])>>
        ELSE LET capture == IF ~is_empty(board, m.dest)
                            THEN get_piece_on(board, m.dest) ELSE m.capture
                 moved == move_square(board, m.source, m.dest)
             IN  <<[m EXCEPT !.capture = capture],
                   IF m.promotion # None
                   THEN set_piece(moved, m.dest, PAWN, m.promotion) ELSE moved>>

\* Move::apply_to: <<move, board, game_state>> after the call.
apply_to(m, board, game_state) ==
    LET kings == IF m.source = E1 THEN game_state.castling \ CASTLE_WH_MASK
                 ELSE IF m.source = E8 THEN game_state.castling \ CASTLE_BL_MASK
                 ELSE game_state.castling
        rooks == IF m.source = A1 \/ m.dest = A1 THEN kings \ {CASTLE_WH_Q}
                 ELSE IF m.source = H1 \/ m.dest = H1 THEN kings \ {CASTLE_WH_K}
                 ELSE IF m.source = A8 \/ m.dest = A8 THEN kings \ {CASTLE_BL_Q}
                 ELSE IF m.source = H8 \/ m.dest = H8 THEN kings \ {CASTLE_BL_K}
                 ELSE kings
        done == apply_to_board([m EXCEPT !.old_castles = game_state.castling], board)
    IN  <<done[1], done[2],
          [game_state EXCEPT !.castling = rooks, !.color = opposite(game_state.color)]>>

\* Move::unmake panics when one of its move_square calls reads an empty square.
unmake_panics(m, board) ==
    IF Move_get_castle(m) # None
    THEN LET c == castle_squares(Move_get_castle(m))
         IN  \/ move_square_panics(board, c[2])
             \/ move_square_panics(move_square(board, c[2], c[1]), c[4])
    ELSE move_square_panics(board, m.dest)

\* Move::unmake: <<board, game_state>> after the call.
unmake(m, board, game_state) ==
    LET castle == Move_get_castle(m)
        new_board ==
            IF castle # None
            THEN LET c == castle_squares(castle)
                 IN  move_square(move_square(board, c[2], c[1]), c[4], c[3])
            ELSE LET back == move_square(board, m.dest, m.source)
                     pawn == IF m.promotion # None
                             THEN set_piece(back, m.source, m.promotion, PAWN) ELSE back
                 IN  IF m.capture # None
                     THEN set_square(pawn, m.dest, game_state.color, m.capture)
                     ELSE pawn
    IN  <<new_board,
          [game_state EXCEPT !.castling = m.old_castles,
                             !.color = opposite(game_state.color)]>>

\* The board unmake leaves behind when it panics: the calls made before the
\* panic have taken effect.
unmake_interrupted(m, board) ==
    LET c == castle_squares(Move_get_castle(m))
    IN  IF Move_get_castle(m) # None /\ ~move_square_panics(board, c[2])
        THEN move_square(board, c[2], c[1])
        ELSE board

\* A move of the generator as a Move.
to_move(m) ==
    IF m[3] = None THEN Move_new(m[1], m[2]) ELSE Move_new_promotion(m[1], m[2], m[3])

\* ------------------------------------------------------------------------
\* fen.rs / engine.rs: positions from FEN.  A FEN is the sequence of its six
\* fields, each field the sequence of its characters.
\* ------------------------------------------------------------------------
\* parse_fen_fields (callers pass six fields)
parse_fen_fields(fields) ==
    [placement |-> fields[1], color |-> fields[2], castling |-> fields[3],
     en_passant |-> fields[4], halfmove |-> fields[5], fullmove |-> fields[6]]

FEN_START ==
    <<<<"r", "n", "b", "q", "k", "b", "n", "r", "/",
        "p", "p", "p", "p", "p", "p", "p", "p", "/", "8", "/", "8", "/", "8", "/", "8", "/",
        "P", "P", "P", "P", "P", "P", "P", "P", "/",
        "R", "N", "B", "Q", "K", "B", "N", "R">>,
      <<"w">>, <<"K", "Q", "k", "q">>, <<"-">>, <<"0">>, <<"1">>>>

\* sq_from_string: file letter and rank digit to a square.
sq_from_string(square) ==
    LET file == CHOOSE f \in 0..7 :
                    <<"a", "b", "c", "d", "e", "f", "g", "h">>[f + 1] = square[1]
    IN  file * 8 + (to_digit(square[2]) - 1)

\* movement.rs / board.rs: moves in UCI notation.
\* sq_to_string: the file letter (square / 8 + 0x61) and the rank digit
\* (square % 8 + 0x31).
sq_to_string(square) ==
    << <<"a", "b", "c", "d", "e", "f", "g", "h">>[(square \div 8) + 1],
       <<"1", "2", "3", "4", "5", "6", "7", "8">>[(square % 8) + 1] >>

UCI_NULL_MOVE_STR == <<"0", "0", "0", "0">>

\* Move::to_uci_string (a promotion to another piece panics)
to_uci_string(m) ==
    sq_to_string(m.source) \o sq_to_string(m.dest) \o
    (IF m.promotion = None THEN <<>>
     ELSE CASE m.promotion = QUEEN -> <<"q">>
            [] m.promotion = BISHOP -> <<"b">>
            [] m.promotion = KNIGHT -> <<"n">>
            [] m.promotion = ROOK -> <<"r">>)

\* Move::from_uci_string (another fifth character panics)
from_uci_string(m_str) ==
    [source |-> sq_from_string(SubSeq(m_str, 1, 2)),
     dest |-> sq_from_string(SubSeq(m_str, 3, 4)),
     promotion |-> IF Len(m_str) = 5
                   THEN CASE m_str[5] = "b" -> BISHOP
                          [] m_str[5] = "n" -> KNIGHT
                          [] m_str[5] = "r" -> ROOK
                          [] m_str[5] = "q" -> QUEEN
                   ELSE None,
     capture |-> None,
     old_castles |-> {}]

\* str::parse::<i32> on a string of decimal digits.
RECURSIVE parse_i32(_)
parse_i32(digits) ==
    IF digits = <<>> THEN 0
    ELSE parse_i32(SubSeq(digits, 1, Len(digits) - 1)) * 10 +
         to_digit(digits[Len(digits)])

\* The castling loop of apply_fen: each flag character sets its flag.
RECURSIVE fen_castling(_, _, _)
fen_castling(chars, i, castling) ==
    IF i > Len(chars) THEN castling
    ELSE fen_castling(chars, i + 1,
             IF chars[i] = "K" THEN castling \cup {CASTLING_WH_K}
             ELSE IF chars[i] = "Q" THEN castling \cup {CASTLING_WH_Q}
             ELSE IF chars[i] = "k" THEN castling \cup {CASTLING_BL_K}
             ELSE IF chars[i] = "q" THEN castling \cup {CASTLING_BL_Q}
             ELSE castling)

\* Engine::apply_fen
apply_fen(n, fen) ==
    [board |-> new_from_fen(fen.placement),
     game_state |->
        [color |-> IF fen.color[1] = "w" THEN WHITE
                   ELSE IF fen.color[1] = "b" THEN BLACK
                   ELSE n.game_state.color,
         castling |-> fen_castling(fen.castling, 1, n.game_state.castling),
         en_passant |-> IF fen.en_passant = <<"-">> THEN None
                        ELSE sq_from_string(fen.en_passant),
         halfmove |-> parse_i32(fen.halfmove),
         fullmove |-> parse_i32(fen.fullmove)]]

\* Engine::apply_moves
RECURSIVE apply_moves(_, _, _)
apply_moves(n, moves, i) ==
    IF i > Len(moves) THEN n
    ELSE LET done == apply_move_to(n.board, n.game_state, moves[i])
         IN  apply_moves([board |-> done[1], game_state |-> done[2]], moves, i + 1)

\* Engine::uci_position: the arguments of a position command, in order.
RECURSIVE uci_position(_, _, _)
uci_position(n, p_args, i) ==
    IF i > Len(p_args) THEN n
    ELSE uci_position(
             IF p_args[i].arg = "Fen" THEN apply_fen(n, parse_fen_fields(p_args[i].val))
             ELSE IF p_args[i].arg = "Startpos" THEN apply_fen(n, parse_fen_fields(FEN_START))
             ELSE apply_moves(n, p_args[i].val, 1),
             p_args, i + 1)

\* ------------------------------------------------------------------------
\* State of the UCI controller, the engine and the search workers
\* ------------------------------------------------------------------------
VARIABLES
    state,      \* Uci.state: "Init", "Ready" or "Working"
    engine_in,  \* Uci.engine_in is Some(sender)
    uci_rx,     \* the controller's channel: Stdin and Engine messages, in order
    stdout,     \* the UCI replies printed so far
    alive,      \* the controller's listen loop has not returned
    reading,    \* the stdin thread has not read "quit"
    typed,      \* lines read from stdin
    gos,        \* go lines read from stdin
    engine_pc,  \* engine thread: "off", "setup" (spawned) or "listening"
    engine_rx,  \* the engine's channel: commands of the controller and workers
    working,    \* Engine.working, the flag shared with the workers
    debug,      \* Engine.debug
    workers     \* search workers: [pc, root, debug, infos] per worker

uciVars == <<state, engine_in, uci_rx, stdout, alive, reading, typed, gos,
             engine_pc, engine_rx, working, debug, workers>>

\* ------------------------------------------------------------------------
\* Playing moves on a node
\* ------------------------------------------------------------------------
VARIABLES
    node,       \* the node in play: [board, game_state]
    saved,      \* the node as it was before the last move was applied
    applied,    \* <<m>>: the Move handed to apply_to / apply_move, else <<>>
    phase,      \* "idle", "applied", "played", "unmade", "panic_apply", "panic_unmake"
    plies       \* moves played since the initial position

chessVars == <<node, saved, applied, phase, plies>>

\* ------------------------------------------------------------------------
\* State of the search of a worker (analysis.rs)
\* ------------------------------------------------------------------------
VARIABLES
    frames,     \* the negamax calls in progress, the innermost last
    result,     \* <<score, best_move>> returned to analyze by negamax, else <<>>
    time_up,    \* start_time.elapsed() has reached time_limit
    reported    \* <<m>>: the Option<Move> sent by report_best_move, else <<>>

searchVars == <<frames, result, time_up, reported>>

SearchIdle ==
    /\ frames = <<>>
    /\ result = <<>>
    /\ time_up = FALSE
    /\ reported = <<>>

\* ------------------------------------------------------------------------
\* State of the time limit of an Analyzer (analysis.rs)
\* ------------------------------------------------------------------------
VARIABLES
    args,        \* the AnalysisParams given to analyze, with the side to move
    time_limit,  \* Analyzer.time_limit
    elapsed_ms,  \* start_time.elapsed().as_millis()
    limit_pc,    \* "idle", "new", "set", "checked" or "panic"
    stop         \* what should_stop_search returned last

clockVars == <<args, time_limit, elapsed_ms, limit_pc, stop>>

ClockIdle ==
    /\ args = <<>>
    /\ time_limit = 0
    /\ elapsed_ms = 0
    /\ limit_pc = "idle"
    /\ stop = FALSE

\* ------------------------------------------------------------------------
\* State of a whole search, negamax taken as a function (analysis.rs)
\* ------------------------------------------------------------------------
VARIABLES
    tree,       \* the game tree below the node given to the search, else <<>>
    searched,   \* <<score, best_move, num_nodes>> of negamax on tree, else <<>>
    minimaxed   \* <<maximizing, <<score, best_move>>>> of minimax on tree, else <<>>

treeVars == <<tree, searched, minimaxed>>

TreeIdle ==
    /\ tree = <<>>
    /\ searched = <<>>
    /\ minimaxed = <<>>

\* ------------------------------------------------------------------------
\* What was asked about the pawns of a board (board.rs, rules.rs, stats.rs)
\* ------------------------------------------------------------------------
VARIABLES
    progress,    \* [square, color, bb, pushes]: the pushes found for a pawn, else <<>>
    board_stats  \* <<BoardStats>> after BoardStats::compute, else <<>>

pawnVars == <<progress, board_stats>>

PawnIdle ==
    /\ progress = <<>>
    /\ board_stats = <<>>

MaxPlies == 2

Node_new == [board |-> new_empty, game_state |-> GameState_new]

fen_node(placement, color, castling) ==
    [board |-> new_from_fen(placement),
     game_state |-> [GameState_new EXCEPT !.color = color, !.castling = castling]]

\* Positions the play starts from: the new game, the castling scenarios S4
\* and S5, and positions of legal games with castles, promotions, captures
\* and a rook on e1.
ChessPositions ==
    { [board |-> Board_new, game_state |-> GameState_new],
      fen_node(<<"8", "/", "8", "/", "8", "/", "8", "/", "8", "/", "8", "/", "8", "/",
                 "R", "3", "K", "2", "R">>, WHITE, CASTLING_WH_MASK),
      fen_node(<<"5", "r", "2", "/", "8", "/", "8", "/", "8", "/", "8", "/", "8", "/",
                 "8", "/", "R", "3", "K", "2", "R">>, WHITE, CASTLING_WH_MASK),
      fen_node(<<"4", "k", "3", "/", "8", "/", "8", "/", "8", "/", "8", "/", "8", "/",
                 "8", "/", "R", "3", "K", "2", "R">>, WHITE, CASTLING_WH_MASK),
      fen_node(<<"r", "3", "k", "2", "r", "/", "8", "/", "8", "/", "8", "/", "8", "/",
                 "8", "/", "4", "K", "3", "/", "8">>, BLACK, CASTLING_BL_MASK),
      fen_node(<<"7", "k", "/", "8", "/", "8", "/", "8", "/", "8", "/", "7", "K", "/",
                 "8", "/", "4", "R", "3">>, WHITE, {}),
      fen_node(<<"k", "7", "/", "8", "/", "8", "/", "8", "/", "8", "/", "7", "K", "/",
                 "8", "/", "4", "R", "2", "r">>, WHITE, {}),
      fen_node(<<"k", "4", "r", "2", "/", "8", "/", "8", "/", "8", "/", "8", "/", "8",
                 "/", "8", "/", "4", "R", "2", "K">>, WHITE, {}),
      fen_node(<<"1", "n", "5", "k", "/", "P", "7", "/", "8", "/", "8", "/", "8", "/",
                 "8", "/", "p", "3", "K", "3", "/", "1", "N", "6">>, BLACK, {}),
      fen_node(<<"4", "k", "3", "/", "8", "/", "8", "/", "3", "p", "4", "/", "4", "P",
                 "3", "/", "8", "/", "4", "K", "3", "/", "8">>, BLACK, {}) }

ChessInit ==
    /\ node \in ChessPositions
    /\ saved = node
    /\ applied = <<>>
    /\ phase = "idle"
    /\ plies = 0

ChessIdle ==
    /\ node = Node_new
    /\ saved = node
    /\ applied = <<>>
    /\ phase = "idle"
    /\ plies = 0

\* The moves of a list, as a set.
moves_set(moves) == {moves[i] : i \in DOMAIN moves}

\* The legal moves of the node in play.
legal_moves == get_player_moves(node.board, node.game_state, TRUE)

\* Move::apply_to with a move of the legal move list.
ApplyTo ==
    /\ phase = "idle"
    /\ plies < MaxPlies
    /\ \E move \in moves_set(legal_moves) :
          LET m == to_move(move)
          IN  /\ saved' = node
              /\ IF apply_to_board_panics(m, node.board)
                 THEN /\ phase' = "panic_apply"
                      /\ applied' = <<m>>
                      /\ node' = node
                 ELSE LET done == apply_to(m, node.board, node.game_state)
                      IN  /\ phase' = "applied"
                          /\ applied' = <<done[1]>>
                          /\ node' = [board |-> done[2], game_state |-> done[3]]
    /\ UNCHANGED <<plies, uciVars, searchVars, clockVars, treeVars, pawnVars>>

\* Move::unmake with the Move that was applied.
Unmake ==
    /\ phase = "applied"
    /\ IF unmake_panics(applied[1], node.board)
       THEN /\ phase' = "panic_unmake"
            /\ node' = [node EXCEPT !.board = unmake_interrupted(applied[1], node.board)]
       ELSE LET undone == unmake(applied[1], node.board, node.game_state)
            IN  /\ phase' = "unmade"
                /\ node' = [board |-> undone[1], game_state |-> undone[2]]
    /\ UNCHANGED <<saved, applied, plies, uciVars, searchVars, clockVars, treeVars, pawnVars>>

\* Engine::apply_move (rules::apply_move_to) with a move of the legal move list.
ApplyMove ==
    /\ phase = "idle"
    /\ plies < MaxPlies
    /\ \E move \in moves_set(legal_moves) :
          LET done == apply_move_to(node.board, node.game_state, move)
          IN  /\ saved' = node
              /\ applied' = <<to_move(move)>>
              /\ phase' = "played"
              /\ node' = [board |-> done[1], game_state |-> done[2]]
    /\ UNCHANGED <<plies, uciVars, searchVars, clockVars, treeVars, pawnVars>>

\* The game goes on from the node reached.
NextPly ==
    /\ phase \in {"applied", "played"}
    /\ phase' = "idle"
    /\ plies' = plies + 1
    /\ saved' = node
    /\ applied' = <<>>
    /\ UNCHANGED <<node, uciVars, searchVars, clockVars, treeVars, pawnVars>>

\* ------------------------------------------------------------------------
\* uci.rs: the controller
\* ------------------------------------------------------------------------
MaxLines == 4
MaxWorkers == 2
MaxInfos == 1

\* A command: its kind and its argument, a number: the search of a worker
\* message, 1 for debug on, the index in PositionInputs of position arguments.
Cmd(type, arg) == [type |-> type, arg |-> arg]

\* Arguments of the position commands typed: startpos, a FEN, startpos with
\* a move.
PositionInputs ==
    << <<[arg |-> "Startpos", val |-> <<>>]>>,
       <<[arg |-> "Fen",
          val |-> <<<<"4", "k", "3", "/", "8", "/", "8", "/", "8", "/", "8", "/", "8", "/",
                      "8", "/", "4", "K", "3">>,
                    <<"b">>, <<"-">>, <<"-">>, <<"0">>, <<"1">>>>]>>,
       <<[arg |-> "Startpos", val |-> <<>>],
         [arg |-> "Moves", val |-> <<<<sq(4, 1), sq(4, 3), None>>>>]>> >>

\* str::parse::<i32> succeeds: an optional sign and decimal digits.
is_i32(chars) ==
    LET digits == IF chars # <<>> /\ chars[1] \in {"-", "+"} THEN Tail(chars) ELSE chars
    IN  /\ digits # <<>>
        /\ \A i \in DOMAIN digits :
              digits[i] \in {"0", "1", "2", "3", "4", "5", "6", "7", "8", "9"}

\* The position arguments parsed, as the command carries them.
position_input(subcommands) ==
    CHOOSE k \in DOMAIN PositionInputs : PositionInputs[k] = subcommands

\* parse_position_command: the loop from field i on.  The slice of the six
\* FEN fields panics when fewer fields follow; the moves are those the
\* engine plays, <<source, dest, promotion>>.
RECURSIVE parse_position_command(_, _, _)
parse_position_command(fields, i, subcommands) ==
    IF i > Len(fields) THEN Cmd("Position", position_input(subcommands))
    ELSE IF fields[i] = <<"f", "e", "n">>
    THEN IF i + 6 > Len(fields) THEN Cmd("Panic", 0)
         ELSE parse_position_command(fields, i + 7,
                  Append(subcommands, [arg |-> "Fen", val |-> SubSeq(fields, i + 1, i + 6)]))
    ELSE IF fields[i] = <<"s", "t", "a", "r", "t", "p", "o", "s">>
    THEN parse_position_command(fields, i + 1,
             Append(subcommands, [arg |-> "Startpos", val |-> <<>>]))
    ELSE IF fields[i] = <<"m", "o", "v", "e", "s">>
    THEN parse_position_command(fields, Len(fields) + 1,
             Append(subcommands,
                    [arg |-> "Moves",
                     val |-> [k \in 1..(Len(fields) - i) |->
                                 <<from_uci_string(fields[i + k]).source,
                                   from_uci_string(fields[i + k]).dest,
                                   from_uci_string(fields[i + k]).promotion>>]]))
    ELSE Cmd("Unknown", 0)

\* parse_go_command: the loop from field i on.  A word that takes a number
\* panics on the index when it is the last field, and on the unwrap when the
\* next field is no number.
RECURSIVE parse_go_command(_, _)
parse_go_command(fields, i) ==
    IF i > Len(fields) THEN Cmd("Go", 0)
    ELSE IF fields[i] \in
            {<<"m", "o", "v", "e", "t", "i", "m", "e">>, <<"w", "t", "i", "m", "e">>,
             <<"b", "t", "i", "m", "e">>, <<"w", "i", "n", "c">>, <<"b", "i", "n", "c">>,
             <<"m", "o", "v", "e", "s", "t", "o", "g", "o">>, <<"d", "e", "p", "t", "h">>,
             <<"n", "o", "d", "e", "s">>, <<"m", "a", "t", "e">>}
    THEN IF i + 1 > Len(fields) \/ ~is_i32(fields[i + 1]) THEN Cmd("Panic", 0)
         ELSE parse_go_command(fields, i + 2)
    ELSE parse_go_command(fields, i + 1)

\* parse_command on the fields of a line; Cmd("Panic", 0) when it panics.
parse_command(fields) ==
    IF fields = <<>> THEN Cmd("Unknown", 0)
    ELSE CASE fields[1] = <<"u", "c", "i">> -> Cmd("Uci", 0)
           [] fields[1] = <<"d", "e", "b", "u", "g">> ->
                  IF Len(fields) < 2 THEN Cmd("Panic", 0)
                  ELSE Cmd("Debug", IF fields[2] = <<"o", "n">> THEN 1 ELSE 0)
           [] fields[1] = <<"i", "s", "r", "e", "a", "d", "y">> -> Cmd("IsReady", 0)
           [] fields[1] = <<"u", "c", "i", "n", "e", "w", "g", "a", "m", "e">> -> Cmd("UciNewGame", 0)
           [] fields[1] = <<"s", "t", "o", "p">> -> Cmd("Stop", 0)
           [] fields[1] = <<"p", "o", "s", "i", "t", "i", "o", "n">> -> parse_position_command(Tail(fields), 1, <<>>)
           [] fields[1] = <<"g", "o">> -> parse_go_command(Tail(fields), 1)
           [] fields[1] = <<"q", "u", "i", "t">> -> Cmd("Quit", 0)
           [] fields[1] = <<"v", "a", "t", "u", "d", "r", "a", "w">> -> Cmd("VatuDraw", 0)
           [] OTHER -> Cmd("Unknown", 0)

\* Lines that are unrecognized or malformed: an unknown command word, an
\* unknown position subcommand, a FEN of three fields, debug without its
\* argument, wtime without its number.
MalformedLines ==
    { <<<<"h", "e", "l", "l", "o">>>>,
      <<<<"p", "o", "s", "i", "t", "i", "o", "n">>, <<"b", "o", "g", "u", "s">>>>,
      <<<<"p", "o", "s", "i", "t", "i", "o", "n">>, <<"f", "e", "n">>, <<"4", "k", "3",
        "/", "8", "/", "8", "/", "8", "/", "8", "/", "8", "/", "8", "/", "4", "K",
        "3">>, <<"b">>, <<"-">>>>,
      <<<<"d", "e", "b", "u", "g">>>>,
      <<<<"g", "o">>, <<"w", "t", "i", "m", "e">>>> }

\* The lines typed on stdin, each the sequence of its fields.
StdinLines ==
    { <<<<"u", "c", "i">>>>,
      <<<<"d", "e", "b", "u", "g">>, <<"o", "n">>>>,
      <<<<"i", "s", "r", "e", "a", "d", "y">>>>,
      <<<<"u", "c", "i", "n", "e", "w", "g", "a", "m", "e">>>>,
      <<<<"s", "t", "o", "p">>>>,
      <<<<"g", "o">>>>,
      <<<<"q", "u", "i", "t">>>>,
      <<<<"v", "a", "t", "u", "d", "r", "a", "w">>>>,
      <<<<"h", "e", "l", "l", "o">>>>,
      <<<<"p", "o", "s", "i", "t", "i", "o", "n">>, <<"s", "t", "a", "r", "t", "p",
        "o", "s">>>>,
      <<<<"p", "o", "s", "i", "t", "i", "o", "n">>, <<"f", "e", "n">>, <<"4", "k", "3",
        "/", "8", "/", "8", "/", "8", "/", "8", "/", "8", "/", "8", "/", "4", "K",
        "3">>, <<"b">>, <<"-">>, <<"-">>, <<"0">>, <<"1">>>>,
      <<<<"p", "o", "s", "i", "t", "i", "o", "n">>, <<"s", "t", "a", "r", "t", "p",
        "o", "s">>, <<"m", "o", "v", "e", "s">>, <<"e", "2", "e", "4">>>> } \cup MalformedLines

\* Variants of the state guards of handle_command with a guard gone wrong.
allowed_in_any_state(st) == TRUE
allowed_unless_init(st) == st # "Init"

\* Uci::handle_command: the state each guarded arm requires.
uci_allowed(st) == st = "Init"
isready_allowed(st) == st = "Ready"
position_allowed(st) == st = "Ready"
go_allowed(st) == st = "Ready"
stop_allowed(st) == st = "Working"

\* Uci::handle_command: the state it leaves (setup_engine sets Ready).
state_after_command(st, cmd) ==
    IF cmd.type = "Uci" /\ uci_allowed(st) THEN "Ready"
    ELSE IF cmd.type = "Go" /\ go_allowed(st) THEN "Working"
    ELSE st

\* Uci::handle_command: the commands it hands to send_engine_command.
sent_by_command(st, cmd) ==
    IF cmd.type = "Debug" THEN <<Cmd("UciDebug", cmd.arg)>>
    ELSE IF cmd.type = "Position" /\ position_allowed(st)
    THEN <<Cmd("UciPosition", cmd.arg)>>
    ELSE IF cmd.type = "Go" /\ go_allowed(st) THEN <<Cmd("UciGo", cmd.arg)>>
    ELSE IF cmd.type = "Stop" /\ stop_allowed(st) THEN <<Cmd("Stop", 0)>>
    ELSE IF cmd.type = "VatuDraw" THEN <<Cmd("DrawBoard", 0)>>
    ELSE <<>>

\* Uci::handle_command: the UCI replies it prints (send_identities, send_ready).
\* A reply is <<text, search>>, search being 0 outside a search.
printed_by_command(st, cmd) ==
    IF cmd.type = "Uci" /\ uci_allowed(st)
    THEN <<<<"id name", 0>>, <<"id author", 0>>, <<"uciok", 0>>>>
    ELSE IF cmd.type = "IsReady" /\ isready_allowed(st) THEN <<<<"readyok", 0>>>>
    ELSE <<>>

\* Uci::send_engine_command: sent when the engine channel is known, else
\* logged and dropped.
send_engine_command(known, queue, cmds) ==
    IF known THEN queue \o cmds ELSE queue

\* Uci::read_stdin: one line read and sent to the controller, which will
\* parse it; quit is the only line of StdinLines read as Quit.
ReadStdin ==
    /\ alive /\ reading
    /\ typed < MaxLines
    /\ \E cmd \in {parse_command(line) : line \in StdinLines} :
          /\ cmd.type = "Go" => gos < MaxWorkers
          /\ uci_rx' = Append(uci_rx, [src |-> "Stdin", cmd |-> cmd])
          /\ reading' = (cmd.type # "Quit")
          /\ gos' = IF cmd.type = "Go" THEN gos + 1 ELSE gos
    /\ typed' = typed + 1
    /\ UNCHANGED <<state, engine_in, stdout, alive, engine_pc, engine_rx, working,
                   debug, workers, chessVars, searchVars, clockVars, treeVars, pawnVars>>

\* Uci::listen, Stdin arm: parse_command and handle_command.
UciHandleStdin ==
    /\ alive
    /\ uci_rx # <<>>
    /\ Head(uci_rx).src = "Stdin"
    /\ LET cmd == Head(uci_rx).cmd
       IN  /\ uci_rx' = Tail(uci_rx)
           /\ alive' = (cmd.type \notin {"Quit", "Panic"})
           /\ state' = state_after_command(state, cmd)
           /\ stdout' = stdout \o printed_by_command(state, cmd)
           /\ engine_rx' = send_engine_command(engine_in, engine_rx,
                                               sent_by_command(state, cmd))
           /\ engine_pc' = IF cmd.type = "Uci" /\ uci_allowed(state) THEN "setup"
                           ELSE engine_pc
    /\ UNCHANGED <<engine_in, reading, typed, gos, working, debug, workers, chessVars, searchVars, clockVars, treeVars, pawnVars>>

\* A variant of handle_engine_command where every reply ends the search.
state_ready_after_any_reply(st, cmd) == "Ready"

\* Uci::handle_engine_command: the state it leaves.
state_after_engine_command(st, cmd) ==
    IF cmd.type = "BestMove" THEN "Ready" ELSE st

\* Uci::handle_engine_command: the UCI replies it prints (send_infos,
\* send_bestmove), each with the search it belongs to.
printed_by_engine_command(cmd) ==
    IF cmd.type = "Info" THEN <<<<"info", cmd.arg>>>>
    ELSE IF cmd.type = "BestMove" THEN <<<<"bestmove", cmd.arg>>>>
    ELSE <<>>

\* Uci::listen, Engine arm: handle_engine_command.
UciHandleEngine ==
    /\ alive
    /\ uci_rx # <<>>
    /\ Head(uci_rx).src = "Engine"
    /\ LET cmd == Head(uci_rx).cmd
       IN  /\ uci_rx' = Tail(uci_rx)
           /\ engine_in' = (engine_in \/ cmd.type = "UciChannel")
           /\ state' = state_after_engine_command(state, cmd)
           /\ stdout' = stdout \o printed_by_engine_command(cmd)
    /\ UNCHANGED <<alive, reading, typed, gos, engine_pc, engine_rx, working, debug,
                   workers, chessVars, searchVars, clockVars, treeVars, pawnVars>>

\* ------------------------------------------------------------------------
\* engine.rs: the engine thread and the workers it spawns
\* ------------------------------------------------------------------------
no_worker == [pc |-> "none", root |-> Node_new, debug |-> FALSE, infos |-> 0]

UciInit ==
    /\ state = "Init"
    /\ engine_in = FALSE
    /\ uci_rx = <<>>
    /\ stdout = <<>>
    /\ alive = TRUE
    /\ reading = TRUE
    /\ typed = 0
    /\ gos = 0
    /\ engine_pc = "off"
    /\ engine_rx = <<>>
    /\ working = FALSE
    /\ debug = FALSE
    /\ workers = [w \in 1..MaxWorkers |-> no_worker]

\* Engine::setup_uci: the engine thread sends its channel to the controller
\* and starts listening.
EngineSetupUci ==
    /\ alive
    /\ engine_pc = "setup"
    /\ engine_pc' = "listening"
    /\ uci_rx' = Append(uci_rx, [src |-> "Engine", cmd |-> Cmd("UciChannel", 0)])
    /\ UNCHANGED <<state, engine_in, stdout, alive, reading, typed, gos, engine_rx,
                   working, debug, workers, chessVars, searchVars, clockVars, treeVars, pawnVars>>

\* A variant of reply that jumps the queue.
reply_first(queue, cmd) == <<[src |-> "Engine", cmd |-> cmd]>> \o queue

\* Engine::reply: a command sent on the channel to the controller.
reply(queue, cmd) == Append(queue, [src |-> "Engine", cmd |-> cmd])

\* Engine::handle_command: what the worker arms forward to the controller.
forwarded(queue, cmd) ==
    IF cmd.type = "Log" THEN reply(queue, Cmd("Log", cmd.arg))
    ELSE IF cmd.type = "WorkerInfo" THEN reply(queue, Cmd("Info", cmd.arg))
    ELSE IF cmd.type = "TmpBestMove" THEN reply(queue, Cmd("BestMove", cmd.arg))
    ELSE queue

\* A variant of the flag after a command in which Engine::work leaves the
\* flag as it finds it.
working_after_stop_only(flag, cmd) ==
    IF cmd.type = "Stop" THEN FALSE ELSE flag

\* Engine::work and Engine::stop: the flag after a command.
working_after(flag, cmd) ==
    IF cmd.type = "UciGo" THEN TRUE
    ELSE IF cmd.type = "Stop" THEN FALSE
    ELSE flag

\* A variant of Engine::work whose thread starts from a fresh node.
spawned_from_new_node(ws, n, dbg) ==
    LET w == Cardinality({i \in DOMAIN ws : ws[i].pc # "none"}) + 1
    IN  [ws EXCEPT ![w] = [pc |-> "spawned", root |-> Node_new, debug |-> dbg, infos |-> 0]]

\* Engine::work: the thread spawned for a go command, with a clone of the node.
spawned_worker(ws, n, dbg) ==
    LET w == Cardinality({i \in DOMAIN ws : ws[i].pc # "none"}) + 1
    IN  [ws EXCEPT ![w] = [pc |-> "spawned", root |-> n, debug |-> dbg, infos |-> 0]]

\* Engine::listen: one command received and handled by handle_command.
EngineHandleCommand ==
    /\ alive
    /\ engine_pc = "listening"
    /\ engine_rx # <<>>
    /\ LET cmd == Head(engine_rx)
       IN  /\ engine_rx' = Tail(engine_rx)
           /\ debug' = IF cmd.type = "UciDebug" THEN cmd.arg = 1 ELSE debug
           /\ node' = IF cmd.type = "UciPosition" THEN uci_position(node, PositionInputs[cmd.arg], 1)
                      ELSE node
           /\ working' = working_after(working, cmd)
           /\ workers' = IF cmd.type = "UciGo" THEN spawned_worker(workers, node, debug)
                         ELSE workers
           /\ uci_rx' = forwarded(uci_rx, cmd)
    /\ UNCHANGED <<state, engine_in, stdout, alive, reading, typed, gos, engine_pc,
                   saved, applied, phase, plies, searchVars, clockVars, treeVars, pawnVars>>

\* analyze, first step: return at once when the flag is unset; in debug mode
\* log the node and its legal moves.
WorkerStart(w) ==
    /\ alive
    /\ workers[w].pc = "spawned"
    /\ IF ~working
       THEN /\ workers' = [workers EXCEPT ![w].pc = "returned"]
            /\ UNCHANGED engine_rx
       ELSE /\ workers' = [workers EXCEPT ![w].pc = "searching"]
            /\ engine_rx' = IF workers[w].debug
                            THEN engine_rx \o <<Cmd("Log", 0), Cmd("Log", 0)>>
                            ELSE engine_rx
    /\ UNCHANGED <<state, engine_in, uci_rx, stdout, alive, reading, typed, gos,
                   engine_pc, working, debug, chessVars, searchVars, clockVars, treeVars, pawnVars>>

\* Analyzer::report_info during the search.
WorkerReportInfo(w) ==
    /\ alive
    /\ workers[w].pc = "searching"
    /\ workers[w].infos < MaxInfos
    /\ workers' = [workers EXCEPT ![w].infos = @ + 1]
    /\ engine_rx' = Append(engine_rx, Cmd("WorkerInfo", w))
    /\ UNCHANGED <<state, engine_in, uci_rx, stdout, alive, reading, typed, gos,
                   engine_pc, working, debug, chessVars, searchVars, clockVars, treeVars, pawnVars>>

\* analyze: the search returns and its outcome is logged.
WorkerEndSearch(w) ==
    /\ alive
    /\ workers[w].pc = "searching"
    /\ workers' = [workers EXCEPT ![w].pc = "reporting"]
    /\ engine_rx' = Append(engine_rx, Cmd("Log", 0))
    /\ UNCHANGED <<state, engine_in, uci_rx, stdout, alive, reading, typed, gos,
                   engine_pc, working, debug, chessVars, searchVars, clockVars, treeVars, pawnVars>>

\* analyze: the best move is sent and the thread ends.
WorkerReportBestMove(w) ==
    /\ alive
    /\ workers[w].pc = "reporting"
    /\ workers' = [workers EXCEPT ![w].pc = "done"]
    /\ engine_rx' = Append(engine_rx, Cmd("TmpBestMove", w))
    /\ UNCHANGED <<state, engine_in, uci_rx, stdout, alive, reading, typed, gos,
                   engine_pc, working, debug, chessVars, searchVars, clockVars, treeVars, pawnVars>>

vars == <<chessVars, uciVars, searchVars, clockVars, treeVars, pawnVars>>

Init == UciInit /\ ChessIdle /\ SearchIdle /\ ClockIdle /\ TreeIdle /\ PawnIdle

Next ==
    \/ ReadStdin
    \/ UciHandleStdin
    \/ UciHandleEngine
    \/ EngineSetupUci
    \/ EngineHandleCommand
    \/ \E w \in 1..MaxWorkers : WorkerStart(w)
    \/ \E w \in 1..MaxWorkers : WorkerReportInfo(w)
    \/ \E w \in 1..MaxWorkers : WorkerEndSearch(w)
    \/ \E w \in 1..MaxWorkers : WorkerReportBestMove(w)

Spec == Init /\ [][Next]_vars

\* Move play on its own: the controller and the engine stay as constructed.
ChessNext == ApplyTo \/ Unmake \/ ApplyMove \/ NextPly

InitChess == ChessInit /\ UciInit /\ SearchIdle /\ ClockIdle /\ TreeIdle /\ PawnIdle

SpecChess == InitChess /\ [][ChessNext]_vars

\* ------------------------------------------------------------------------
\* analysis.rs: the search of a worker, one negamax call per frame
\*
\* Scores are kept in tenths (the evaluation weighs mobility by 0.1), and
\* the infinite f32 bounds are a number larger than every evaluation.
\* ------------------------------------------------------------------------
MAX_F32 == 1000000
MIN_F32 == 0 - MAX_F32
max_depth == 4

\* BoardStats::compute: mobility and piece counts of the playing colour.
compute(board, game_state) ==
    [mobility |-> Len(get_player_moves(board, game_state, TRUE)),
     num |-> [p \in Pieces |->
                Cardinality(by_color(board, game_state.color) \cap board.pieces[p])],
     num_doubled_pawns |-> 0,
     num_backward_pawns |-> 0,
     num_isolated_pawns |-> 0]

\* BoardStats::new_from: the stats of the player, then of its opponent.
compute_stats(n) ==
    <<compute(n.board, n.game_state),
      compute(n.board, [n.game_state EXCEPT !.color = opposite(@)])>>

\* A variant of evaluate that counts the mobility of the player only.
evaluate_own_mobility(stats) ==
    LET diff(p) == stats[1].num[p] - stats[2].num[p]
    IN  2000 * diff(KING) + 90 * diff(QUEEN) + 50 * diff(ROOK)
        + 30 * diff(BISHOP) + 30 * diff(KNIGHT) + 10 * diff(PAWN)
        + stats[1].mobility

\* evaluate: Shannon's formula; the pawn structure counts are always 0.
evaluate(stats) ==
    LET diff(p) == stats[1].num[p] - stats[2].num[p]
    IN  2000 * diff(KING) + 90 * diff(QUEEN) + 50 * diff(ROOK)
        + 30 * diff(BISHOP) + 30 * diff(KNIGHT) + 10 * diff(PAWN)
        + (stats[1].mobility - stats[2].mobility)

\* A variant of should_stop_search that does not look at the flag.
should_stop_search_unflagged(flag, depth, elapsed) ==
    depth = max_depth \/ elapsed

\* Analyzer::should_stop_search
should_stop_search(flag, depth, elapsed) ==
    ~flag \/ depth = max_depth \/ elapsed

\* A call negamax(node, alpha, beta, depth) that has not looked at its node.
negamax_call(n, alpha, beta, depth) ==
    [node |-> n, alpha |-> alpha, beta |-> beta, depth |-> depth, pc |-> "enter",
     moves |-> <<>>, i |-> 1, best_score |-> MIN_F32, best_move |-> <<>>]

\* A variant of after_sub_node in which an equal score replaces the best move.
after_sub_node_or_equal(f, res) ==
    LET score == 0 - res[1]
        better == score >= f.best_score
        best_score == IF better THEN score ELSE f.best_score
        alpha == IF best_score > f.alpha THEN best_score ELSE f.alpha
    IN  [f EXCEPT !.best_score = best_score,
                  !.best_move = IF better THEN <<f.moves[f.i]>> ELSE @,
                  !.alpha = alpha,
                  !.i = IF alpha >= f.beta THEN Len(f.moves) + 1 ELSE @ + 1]

\* negamax, the body of the loop after the recursive call on moves[i]
\* returned res: the best score and move, alpha and the cut.
after_sub_node(f, res) ==
    LET score == 0 - res[1]
        better == score > f.best_score
        best_score == IF better THEN score ELSE f.best_score
        alpha == IF best_score > f.alpha THEN best_score ELSE f.alpha
    IN  [f EXCEPT !.best_score = best_score,
                  !.best_move = IF better THEN <<f.moves[f.i]>> ELSE @,
                  !.alpha = alpha,
                  !.i = IF alpha >= f.beta THEN Len(f.moves) + 1 ELSE @ + 1]

\* The innermost call returns res: to analyze when it is the root call, else
\* to the loop of its caller.
negamax_returns(res) ==
    LET n == Len(frames)
    IN  IF n = 1
        THEN /\ frames' = <<>>
             /\ result' = res
        ELSE /\ frames' = [SubSeq(frames, 1, n - 1) EXCEPT ![n - 1] = after_sub_node(@, res)]
             /\ UNCHANGED result

\* A variant of the move sent when negamax found none, that gives up.
no_legal_move(moves) == <<>>

\* analyze, the move sent when negamax found none: the first legal move.
first_legal_move(moves) == IF Len(moves) > 0 THEN <<moves[1]>> ELSE <<>>

\* Roots of a search: two kings near a corner; a king whose only move lets
\* a pawn stalemate it, and the position after that move; a king with no
\* move of its own, and a checkmate.
SearchRoots ==
    { fen_node(<<"8", "/", "8", "/", "8", "/", "8", "/", "8", "/", "2", "k", "5", "/",
                 "8", "/", "K", "7">>, WHITE, {}),
      fen_node(<<"8", "/", "8", "/", "1", "P", "K", "5", "/", "k", "7", "/", "8", "/",
                 "1", "P", "P", "5", "/", "8", "/", "8">>, BLACK, {}),
      fen_node(<<"8", "/", "8", "/", "k", "P", "K", "5", "/", "8", "/", "8", "/",
                 "1", "P", "P", "5", "/", "8", "/", "8">>, WHITE, {}),
      fen_node(<<"k", "7", "/", "P", "7", "/", "K", "7", "/", "8", "/", "8", "/", "8",
                 "/", "8", "/", "8">>, BLACK, {}),
      fen_node(<<"R", "6", "k", "/", "8", "/", "7", "K", "/", "8", "/", "8", "/", "8",
                 "/", "8", "/", "8">>, BLACK, {}) }

\* Analyzer::analyze has set the limits and calls negamax on its node; the
\* controller and the engine are as a go command leaves them.
SearchInit ==
    /\ node \in SearchRoots
    /\ saved = node
    /\ applied = <<>>
    /\ phase = "idle"
    /\ plies = 0
    /\ state = "Working"
    /\ engine_in = TRUE
    /\ uci_rx = <<>>
    /\ stdout = <<<<"id name", 0>>, <<"id author", 0>>, <<"uciok", 0>>>>
    /\ alive = TRUE
    /\ reading = TRUE
    /\ typed = 2
    /\ gos = 1
    /\ engine_pc = "listening"
    /\ engine_rx = <<>>
    /\ working = TRUE
    /\ debug = FALSE
    /\ workers = [w \in 1..MaxWorkers |->
                    IF w = 1 THEN [no_worker EXCEPT !.pc = "searching", !.root = node]
                    ELSE no_worker]
    /\ frames = <<negamax_call(node, MIN_F32, MAX_F32, 0)>>
    /\ result = <<>>
    /\ time_up = FALSE
    /\ reported = <<>>
    /\ ClockIdle
    /\ TreeIdle
    /\ PawnIdle

\* negamax: the search should stop, the node is evaluated.
NegamaxEvaluate ==
    /\ frames # <<>>
    /\ LET f == frames[Len(frames)]
       IN  /\ f.pc = "enter"
           /\ should_stop_search(working, f.depth, time_up)
           /\ negamax_returns(<<evaluate(compute_stats(f.node)), <<>>>>)
    /\ UNCHANGED <<time_up, reported, chessVars, uciVars, clockVars, treeVars, pawnVars>>

\* negamax: the search goes on, the moves of the node are listed.
NegamaxExpand ==
    /\ frames # <<>>
    /\ LET f == frames[Len(frames)]
       IN  /\ f.pc = "enter"
           /\ ~should_stop_search(working, f.depth, time_up)
           /\ frames' = [frames EXCEPT ![Len(frames)] =
                           [f EXCEPT !.pc = "loop",
                                     !.moves = get_player_moves(f.node.board,
                                                                f.node.game_state, TRUE)]]
    /\ UNCHANGED <<result, time_up, reported, chessVars, uciVars, clockVars, treeVars, pawnVars>>

\* negamax: the next move is applied to a clone of the node and searched.
NegamaxDescend ==
    /\ frames # <<>>
    /\ LET f == frames[Len(frames)]
       IN  /\ f.pc = "loop"
           /\ f.i <= Len(f.moves)
           /\ LET done == apply_move_to(f.node.board, f.node.game_state, f.moves[f.i])
                  sub_node == [board |-> done[1], game_state |-> done[2]]
              IN  frames' = Append(frames, negamax_call(sub_node, 0 - f.beta, 0 - f.alpha,
                                                        f.depth + 1))
    /\ UNCHANGED <<result, time_up, reported, chessVars, uciVars, clockVars, treeVars, pawnVars>>

\* negamax: the loop is over (moves exhausted or cut), the best is returned.
NegamaxReturn ==
    /\ frames # <<>>
    /\ LET f == frames[Len(frames)]
       IN  /\ f.pc = "loop"
           /\ f.i > Len(f.moves)
           /\ negamax_returns(<<f.best_score, f.best_move>>)
    /\ UNCHANGED <<time_up, reported, chessVars, uciVars, clockVars, treeVars, pawnVars>>

\* A variant of send_bestmove that prints no move when there is none.
send_bestmove_blank(m) ==
    <<"b", "e", "s", "t", "m", "o", "v", "e", " ">> \o
    (IF m # <<>> THEN to_uci_string(to_move(m[1])) ELSE <<>>)

\* Uci::send_bestmove: the line printed for the Option<Move> of the engine.
send_bestmove(m) ==
    <<"b", "e", "s", "t", "m", "o", "v", "e", " ">> \o
    (IF m # <<>> THEN to_uci_string(to_move(m[1])) ELSE UCI_NULL_MOVE_STR)

\* A variant of analyze that reports the best move it found a second time.
analyze_outcome_twice(root, best_move) ==
    IF best_move # <<>>
    THEN <<Cmd("Log", "Best move evaluated"), Cmd("TmpBestMove", best_move),
           Cmd("TmpBestMove", best_move)>>
    ELSE <<Cmd("Log", "Checkmate is unavoidable."),
           Cmd("TmpBestMove",
               first_legal_move(get_player_moves(root.board, root.game_state, TRUE)))>>

\* analyze: what it logs and reports for the outcome of negamax on root.
analyze_outcome(root, best_move) ==
    IF best_move # <<>>
    THEN <<Cmd("Log", "Best move evaluated"), Cmd("TmpBestMove", best_move)>>
    ELSE <<Cmd("Log", "Checkmate is unavoidable."),
           Cmd("TmpBestMove",
               first_legal_move(get_player_moves(root.board, root.game_state, TRUE)))>>

\* analyze: the best move is logged and reported, or the first legal move
\* when the search found none.
AnalyzeReport ==
    /\ result # <<>>
    /\ reported = <<>>
    /\ \E sent \in {analyze_outcome(workers[1].root, result[2])} :
          /\ reported' = <<sent[2].arg>>
          /\ engine_rx' = engine_rx \o sent
    /\ workers' = [workers EXCEPT ![1].pc = "done"]
    /\ UNCHANGED <<frames, result, time_up, chessVars, state, engine_in, uci_rx, stdout,
                   alive, reading, typed, gos, engine_pc, working, debug,
                   clockVars, treeVars, pawnVars>>

\* Engine::listen: the messages of the worker are forwarded to the controller.
EngineForward ==
    /\ reported # <<>>
    /\ EngineHandleCommand

\* Uci::listen, Engine arm: the log message of the worker is logged.
UciLog ==
    /\ reported # <<>>
    /\ uci_rx # <<>>
    /\ Head(uci_rx).cmd.type = "Log"
    /\ UciHandleEngine

\* Uci::handle_engine_command, BestMove arm, with the move it carries.
UciSendBestMove ==
    /\ alive
    /\ uci_rx # <<>>
    /\ Head(uci_rx).src = "Engine"
    /\ Head(uci_rx).cmd.type = "BestMove"
    /\ uci_rx' = Tail(uci_rx)
    /\ state' = state_after_engine_command(state, Head(uci_rx).cmd)
    /\ stdout' = Append(stdout, <<send_bestmove(Head(uci_rx).cmd.arg), 1>>)
    /\ UNCHANGED <<engine_in, alive, reading, typed, gos, engine_pc, engine_rx, working,
                   debug, workers, chessVars, searchVars, clockVars, treeVars, pawnVars>>

\* Engine::stop while the worker searches.
EngineStop ==
    /\ working
    /\ reported = <<>>
    /\ working' = FALSE
    /\ UNCHANGED <<searchVars, chessVars, state, engine_in, uci_rx, stdout, alive,
                   reading, typed, gos, engine_pc, engine_rx, debug, workers, clockVars, treeVars, pawnVars>>

\* The time limit of the search passes.
TimeLimit ==
    /\ ~time_up
    /\ reported = <<>>
    /\ time_up' = TRUE
    /\ UNCHANGED <<frames, result, reported, chessVars, uciVars, clockVars, treeVars, pawnVars>>

SearchNext ==
    \/ NegamaxEvaluate
    \/ NegamaxExpand
    \/ NegamaxDescend
    \/ NegamaxReturn
    \/ AnalyzeReport
    \/ EngineForward
    \/ UciLog
    \/ UciSendBestMove
    \/ EngineStop
    \/ TimeLimit

SpecSearch == SearchInit /\ [][SearchNext]_vars

\* The thread of the worker is scheduled as long as it has a step to take,
\* that is until it has reported (weak fairness of its steps, with their
\* enabling condition written out); nothing is assumed of Engine::stop and
\* of the clock.
SpecSearchFair ==
    SpecSearch /\ (\/ []<>(reported # <<>>)
                   \/ []<><<NegamaxEvaluate \/ NegamaxExpand \/ NegamaxDescend
                             \/ NegamaxReturn \/ AnalyzeReport>>_vars)

\* ------------------------------------------------------------------------
\* analysis.rs: the time limit of a search
\* ------------------------------------------------------------------------
I32_MAX == 2147483647

\* The AnalysisParams of the go commands tried: absent (-1), zero, small and
\* large values, and a move time below -1.
MoveTimes == {0 - 5, 0 - 1, 0, 100}
Times == {0 - 1, 0, 3, 1000, 120001}
Incs == {0 - 1, 50, I32_MAX}
\* The instants at which the search looks at its clock.
Instants == {0, 99, 100, 249, 250, 299, 300, 59999, 60000}

AnalysisInputs ==
    [move_time : MoveTimes, white_time : Times, black_time : Times,
     white_inc : Incs, black_inc : Incs, color : Colors]

\* a + b on i32, for a >= 0: <<"ok", sum>>, and on overflow a panic (checked
\* build) or the wrapped sum (unchecked build).
add_i32(a, b) ==
    IF b > I32_MAX - a
    THEN {<<"panic", 0>>, <<"ok", (a - I32_MAX - 1) + (b - I32_MAX - 1)>>}
    ELSE {<<"ok", a + b>>}

\* Analyzer::set_limits: the outcomes for time_limit.
set_limits(a) ==
    IF a.move_time # 0 - 1 THEN {<<"ok", a.move_time>>}
    ELSE LET time == IF a.color = WHITE THEN a.white_time ELSE a.black_time
             inc == IF a.color = WHITE THEN a.white_inc ELSE a.black_inc
         IN  IF time > 2 * 60 * 1000 THEN {<<"ok", 60 * 1000>>}
             ELSE IF time > 0 THEN add_i32(time \div 4, inc)
             ELSE {<<"ok", I32_MAX>>}

\* `x as u128` for an i32: <<0, x>> is x, and <<1, x>> is 2^128 + x, the
\* sign-extended value of a negative x.
as_u128(x) == IF x >= 0 THEN <<0, x>> ELSE <<1, x>>

\* elapsed().as_millis() >= time_limit as u128.  The milliseconds of a
\* Duration are below 2^128 - 2^31.
limit_reached(ms, limit) ==
    IF as_u128(limit)[1] = 1 THEN FALSE ELSE ms >= as_u128(limit)[2]

LimitsInit ==
    /\ args \in AnalysisInputs
    /\ time_limit = 0
    /\ elapsed_ms = 0
    /\ limit_pc = "new"
    /\ stop = FALSE
    /\ UciInit
    /\ ChessIdle
    /\ SearchIdle
    /\ TreeIdle
    /\ PawnIdle

\* analyze: set_limits, then start_time is taken.
AnalyzeSetLimits ==
    /\ limit_pc = "new"
    /\ \E outcome \in set_limits(args) :
          IF outcome[1] = "panic"
          THEN limit_pc' = "panic" /\ UNCHANGED time_limit
          ELSE limit_pc' = "set" /\ time_limit' = outcome[2]
    /\ elapsed_ms' = 0
    /\ UNCHANGED <<args, stop, chessVars, uciVars, searchVars, treeVars, pawnVars>>

\* Time passes during the search.
ClockTick ==
    /\ limit_pc \in {"set", "checked"}
    /\ \E ms \in Instants : ms > elapsed_ms /\ elapsed_ms' = ms
    /\ limit_pc' = "set"
    /\ UNCHANGED <<args, time_limit, stop, chessVars, uciVars, searchVars, treeVars, pawnVars>>

\* negamax asks should_stop_search at the root, the flag being set.
ShouldStopSearch ==
    /\ limit_pc = "set"
    /\ stop' = should_stop_search(TRUE, 0, limit_reached(elapsed_ms, time_limit))
    /\ limit_pc' = "checked"
    /\ UNCHANGED <<args, time_limit, elapsed_ms, chessVars, uciVars, searchVars, treeVars, pawnVars>>

LimitsNext == AnalyzeSetLimits \/ ClockTick \/ ShouldStopSearch

SpecLimits == LimitsInit /\ [][LimitsNext]_vars

\* ------------------------------------------------------------------------
\* analysis.rs: negamax as a function of the game tree below its node
\*
\* A tree is a node where the search stops, with its evaluation, or a node
\* with its moves in generator order and the tree below each of them.
\* ------------------------------------------------------------------------
MaxBranch == 2
Scores == {0, 1}
test_depth == 2

\* score is the evaluation for the player to move (analysis.rs) and
\* white_score the evaluation for white (engine.rs).
leaf_tree(score, white_score) ==
    [leaf |-> TRUE, score |-> score, white_score |-> white_score,
     moves |-> <<>>, subs |-> <<>>]
inner_tree(moves, subs) ==
    [leaf |-> FALSE, score |-> 0, white_score |-> 0, moves |-> moves, subs |-> subs]

\* stats::compute_stats(&board) of engine.rs: the stats (ws, bs) of white
\* and of black.
white_black_stats(n) == compute_stats([n EXCEPT !.game_state.color = WHITE])

\* negamax without a stop flag and without a time limit, the calls it makes
\* below node n down to depth limit: the moves it lists, the nodes it applies
\* them to, the evaluations where it stops.
RECURSIVE game_tree(_, _, _)
game_tree(n, depth, limit) ==
    IF depth = limit
    THEN leaf_tree(evaluate(compute_stats(n)), evaluate(white_black_stats(n)))
    ELSE LET moves == get_player_moves(n.board, n.game_state, TRUE)
             sub_node(m) == LET done == apply_move_to(n.board, n.game_state, m)
                            IN  [board |-> done[1], game_state |-> done[2]]
         IN  inner_tree(moves, [i \in 1..Len(moves) |->
                                   game_tree(sub_node(moves[i]), depth + 1, limit)])

\* Analyzer::negamax on a tree: <<best_score, best_move, num_nodes>>.
RECURSIVE negamax(_, _, _)
RECURSIVE negamax_loop(_, _, _)
\* A variant of the loop that negates its window for the recursive call and
\* does not swap it.
negamax_loop_unswapped(f, subs, num_nodes) ==
    IF f.i > Len(f.moves)
    THEN <<f.best_score, f.best_move, num_nodes>>
    ELSE LET res == negamax(subs[f.i], 0 - f.alpha, 0 - f.beta)
         IN  negamax_loop(after_sub_node(f, res), subs, num_nodes + res[3])

negamax_loop(f, subs, num_nodes) ==
    IF f.i > Len(f.moves)
    THEN <<f.best_score, f.best_move, num_nodes>>
    ELSE LET res == negamax(subs[f.i], 0 - f.beta, 0 - f.alpha)
         IN  negamax_loop(after_sub_node(f, res), subs, num_nodes + res[3])

negamax(t, alpha, beta) ==
    IF t.leaf
    THEN <<t.score, <<>>, 1>>
    ELSE negamax_loop([negamax_call(t, alpha, beta, 0) EXCEPT !.moves = t.moves], t.subs, 1)

RECURSIVE minimax(_, _)
RECURSIVE minimax_loop(_, _, _, _)

\* A variant of the loop that searches the replies for the same side.
minimax_loop_unflipped(t, maximizing, k, minmax) ==
    IF k > Len(t.moves)
    THEN minmax
    ELSE LET score == minimax(t.subs[k], maximizing)[1]
             replaces == IF maximizing THEN score > minmax[1] ELSE score < minmax[1]
         IN  minimax_loop(t, maximizing, k + 1,
                          IF replaces THEN <<score, <<t.moves[k]>>>> ELSE minmax)

\* engine.rs, minimax on a tree: <<minmax, minmax_move>>, the loop from the
\* k-th move on.
minimax_loop(t, maximizing, k, minmax) ==
    IF k > Len(t.moves)
    THEN minmax
    ELSE LET score == minimax(t.subs[k], ~maximizing)[1]
             replaces == IF maximizing THEN score > minmax[1] ELSE score < minmax[1]
         IN  minimax_loop(t, maximizing, k + 1,
                          IF replaces THEN <<score, <<t.moves[k]>>>> ELSE minmax)

minimax(t, maximizing) ==
    IF t.leaf
    THEN <<t.white_score, <<>>>>
    ELSE minimax_loop(t, maximizing, 1, <<IF maximizing THEN MIN_F32 ELSE MAX_F32, <<>>>>)

\* The value of a tree for the player at its root, no branch left out.
RECURSIVE tree_value(_)
tree_value(t) ==
    IF t.leaf THEN t.score
    ELSE IF t.moves = <<>> THEN MIN_F32
    ELSE LET values == {0 - tree_value(t.subs[i]) : i \in DOMAIN t.subs}
         IN  CHOOSE v \in values : \A w \in values : w <= v

\* The number of nodes of a tree.
RECURSIVE tree_size(_)
tree_size(t) ==
    IF t.subs = <<>> THEN 1
    ELSE LET sizes == [i \in DOMAIN t.subs |-> tree_size(t.subs[i])]
             sum[k \in 0..Len(sizes)] == IF k = 0 THEN 1 ELSE sum[k - 1] + sizes[k]
         IN  sum[Len(sizes)]

\* The trees with at most MaxBranch moves at a node: two plies, and a third
\* one for the nodes that have no move.  The moves are named by their rank
\* in the list.
trees_over(subs) ==
    {inner_tree([i \in 1..Len(below) |-> i], below) :
        below \in UNION {[1..k -> subs] : k \in 0..MaxBranch}}
Leaves == {leaf_tree(s, s) : s \in Scores}
RECURSIVE Trees(_)
Trees(depth) ==
    IF depth = 0 THEN Leaves \cup {inner_tree(<<>>, <<>>)}
    ELSE Leaves \cup trees_over(Trees(depth - 1))

\* The mate in one of the test of the search, for the colour to move.
mate_in_one(color) ==
    IF color = WHITE
    THEN fen_node(<<"3", "k", "4", "/", "7", "Q", "/", "2", "P", "5", "/", "8", "/", "8",
                    "/", "8", "/", "8", "/", "K", "7">>, WHITE, {})
    ELSE fen_node(<<"3", "K", "4", "/", "7", "q", "/", "2", "p", "5", "/", "8", "/", "8",
                    "/", "8", "/", "8", "/", "k", "7">>, BLACK, {})

\* A search is about to start: on a tree, or on a position of the test.
TreeInit ==
    /\ \/ tree \in Trees(test_depth) /\ node = Node_new
       \/ tree = <<>> /\ node \in {mate_in_one(c) : c \in Colors}
    /\ searched = <<>>
    /\ minimaxed = <<>>
    /\ saved = node
    /\ applied = <<>>
    /\ phase = "idle"
    /\ plies = 0
    /\ UciInit
    /\ SearchIdle
    /\ ClockIdle
    /\ PawnIdle

\* The tree that a search of test_depth plies walks below the position.
UnfoldGame ==
    /\ tree = <<>>
    /\ tree' = game_tree(node, 0, test_depth)
    /\ UNCHANGED <<searched, minimaxed, chessVars, uciVars, searchVars, clockVars, pawnVars>>

\* analyze: negamax(node, MIN_F32, MAX_F32, 0), to its end.
NegamaxTree ==
    /\ tree # <<>>
    /\ searched = <<>>
    /\ searched' = negamax(tree, MIN_F32, MAX_F32)
    /\ UNCHANGED <<tree, minimaxed, chessVars, uciVars, searchVars, clockVars, pawnVars>>

\* engine.rs: minimax(node, 0, test_depth, maximizing) on a position, to its
\* end; maximizing is true in the test, and is_white(color) in analyze.
MinimaxTree ==
    /\ tree # <<>>
    /\ node # Node_new
    /\ minimaxed = <<>>
    /\ \E maximizing \in {TRUE, node.game_state.color = WHITE} :
          minimaxed' = <<maximizing, minimax(tree, maximizing)>>
    /\ UNCHANGED <<tree, searched, chessVars, uciVars, searchVars, clockVars, pawnVars>>

TreeNext == UnfoldGame \/ NegamaxTree \/ MinimaxTree

SpecTree == TreeInit /\ [][TreeNext]_vars



\* ------------------------------------------------------------------------
\* Properties of move play
\* ------------------------------------------------------------------------
has_both_kings(board) ==
    find_king(board, WHITE) # None /\ find_king(board, BLACK) # None

\* C1: for a node of a legal game and a legal move of it, apply_to followed
\* by unmake with the same Move returns and leaves the board and the game
\* state equal to what they were before apply_to.
C1_ApplyUnmakeIdentity ==
    (phase \in {"unmade", "panic_unmake"} /\ has_both_kings(saved.board))
        => (phase = "unmade" /\ node = saved)

\* C2: when the side to move has a king, every move of
\* get_player_moves(commit = true) leaves, once applied, the mover's king on
\* a square that no opponent piece attacks.
C2_MoverKingSafe ==
    (phase \in {"applied", "played"} /\
     find_king(saved.board, saved.game_state.color) # None)
        => LET king_p == find_king(node.board, saved.game_state.color)
           IN  /\ king_p # None
               /\ ~is_attacked(node.board, saved.game_state, king_p)

\* The squares that must be empty, and those that must not be attacked, for
\* the castle of one flag; the king's and the rook's origin.
castle_empty_squares(castle) ==
    IF castle = CASTLING_WH_K THEN {F1, G1}
    ELSE IF castle = CASTLING_WH_Q THEN {sq(1, 0), C1, D1}
    ELSE IF castle = CASTLING_BL_K THEN {F8, G8}
    ELSE {sq(1, 7), C8, D8}

castle_king_squares(castle) ==
    IF castle = CASTLING_WH_K THEN {E1, F1, G1}
    ELSE IF castle = CASTLING_WH_Q THEN {E1, D1, C1}
    ELSE IF castle = CASTLING_BL_K THEN {E8, F8, G8}
    ELSE {E8, D8, C8}

castle_allowed(n, castle) ==
    /\ castle \in n.game_state.castling
    /\ \A p \in castle_empty_squares(castle) : is_empty(n.board, p)
    /\ castle_king_squares(castle) \cap
           get_full_rays(n.board, opposite(n.game_state.color)) = {}

count_moves(moves, m) == Cardinality({i \in DOMAIN moves : moves[i] = m})

S4_node == fen_node(<<"8", "/", "8", "/", "8", "/", "8", "/", "8", "/", "8", "/", "8", "/",
                      "R", "3", "K", "2", "R">>, WHITE, CASTLING_WH_MASK)
S5_node == fen_node(<<"5", "r", "2", "/", "8", "/", "8", "/", "8", "/", "8", "/", "8", "/",
                      "8", "/", "R", "3", "K", "2", "R">>, WHITE, CASTLING_WH_MASK)

\* C3: the legal move list holds the castle move of a side exactly when
\* the right is set, the squares between king and rook are empty and the
\* king's origin, crossed and destination squares are not attacked; in S4
\* the moves from e1 are 5 king steps, e1g1 once and e1c1 once; in S5 e1g1
\* is absent.
C3_CastleIffAllowed ==
    phase = "idle" =>
        /\ \A castle \in (IF node.game_state.color = WHITE
                          THEN CASTLING_WH_MASK ELSE CASTLING_BL_MASK) :
              (get_castle_move({castle}) \in moves_set(legal_moves))
                  <=> castle_allowed(node, castle)
        /\ node = S4_node =>
              /\ Len(SelectSeq(legal_moves, LAMBDA m : m[1] = E1)) = 7
              /\ count_moves(legal_moves, <<E1, G1, None>>) = 1
              /\ count_moves(legal_moves, <<E1, C1, None>>) = 1
        /\ node = S5_node => count_moves(legal_moves, <<E1, G1, None>>) = 0

\* ------------------------------------------------------------------------
\* Properties of the controller, the engine and the workers
\* ------------------------------------------------------------------------
queued(queue, type) == \E i \in DOMAIN queue : queue[i].type = type

\* The answer of the current search is still on its way: the go is queued at
\* the engine, a worker has yet to send its best move, or the best move is in
\* one of the two channels.
answer_pending ==
    \/ queued(engine_rx, "UciGo")
    \/ \E w \in 1..MaxWorkers : workers[w].pc \in {"spawned", "searching", "reporting"}
    \/ queued(engine_rx, "TmpBestMove")
    \/ \E i \in DOMAIN uci_rx : uci_rx[i].src = "Engine" /\ uci_rx[i].cmd.type = "BestMove"

\* C4: after stop a bestmove always comes.  While the controller is Working
\* on a search the engine has started, stopped or not, the answer is still
\* on its way; a state where it is not is a state where the controller
\* waits for ever, go being ignored in Working.
C4_StopGetsBestMove ==
    (alive /\ state = "Working" /\ \E w \in 1..MaxWorkers : workers[w].pc # "none")
        => answer_pending

\* The controller handles the Stdin message at the head of its channel.
handles_stdin(type, states) ==
    /\ uci_rx # <<>>
    /\ Head(uci_rx).src = "Stdin"
    /\ Head(uci_rx).cmd.type = type
    /\ state \in states
    /\ uci_rx' = Tail(uci_rx)

\* C5: the controller state changes only from Init to Ready when uci is
\* handled, from Ready to Working when go is handled and from Working to
\* Ready when a BestMove of the engine is handled.
C5_StateTransitions ==
    [][state' # state =>
          \/ handles_stdin("Uci", {"Init"}) /\ state' = "Ready"
          \/ handles_stdin("Go", {"Ready"}) /\ state' = "Working"
          \/ /\ state = "Working" /\ state' = "Ready"
             /\ uci_rx # <<>>
             /\ Head(uci_rx).src = "Engine"
             /\ Head(uci_rx).cmd.type = "BestMove"
             /\ uci_rx' = Tail(uci_rx)]_vars

\* The three changes have happened: a bestmove is printed and the controller
\* is Ready after it.
C5_Witness ==
    state = "Ready" /\ \E i \in DOMAIN stdout : stdout[i][1] = "bestmove"

\* C6: go while Working or Init, position and isready while Working or Init,
\* stop while Ready or Init send nothing to the engine, print nothing and
\* leave the controller state and the engine's position as they are.
C6_DisallowedIgnored ==
    [][(\/ handles_stdin("Go", {"Working", "Init"})
        \/ handles_stdin("Position", {"Working", "Init"})
        \/ handles_stdin("IsReady", {"Working", "Init"})
        \/ handles_stdin("Stop", {"Ready", "Init"}))
          => /\ engine_rx' = engine_rx
             /\ stdout' = stdout
             /\ state' = state
             /\ node' = node]_vars

\* Three lines were read and handled, two of them go, and one search runs:
\* one of the go lines came while the controller was Init or Working.
C6_Witness ==
    /\ alive /\ state = "Working"
    /\ typed = 3 /\ gos = 2
    /\ uci_rx = <<>> /\ engine_rx = <<>>
    /\ workers[1].pc = "searching" /\ workers[2].pc = "none"

\* C7: at most one spawned worker has not sent its best move.
C7_OneWorker ==
    Cardinality({w \in 1..MaxWorkers : workers[w].pc \notin {"none", "done"}}) <= 1

\* A second worker is spawned after the first has sent its best move.
C7_Witness == workers[1].pc = "done" /\ workers[2].pc = "spawned"

\* The info and bestmove messages of search w, in the order in which they
\* reach, or have reached, the standard output: printed, then queued at the
\* controller, then queued at the engine.
trail(w) ==
    LET printed == SelectSeq(stdout, LAMBDA r : r[2] = w)
        at_uci == SelectSeq(uci_rx, LAMBDA m : m.src = "Engine" /\ m.cmd.arg = w /\
                                               m.cmd.type \in {"Info", "BestMove"})
        at_engine == SelectSeq(engine_rx, LAMBDA c : c.arg = w /\
                                               c.type \in {"WorkerInfo", "TmpBestMove"})
    IN  [i \in DOMAIN printed |-> printed[i][1] = "bestmove"] \o
        [i \in DOMAIN at_uci |-> at_uci[i].cmd.type = "BestMove"] \o
        [i \in DOMAIN at_engine |-> at_engine[i].type = "TmpBestMove"]

\* C10: for each search no info follows its bestmove, in either channel or
\* in the output, and a worker that may still report has sent no best move.
C10_InfoBeforeBestMove ==
    \A w \in 1..MaxWorkers :
        LET t == trail(w)
        IN  /\ \A i, j \in DOMAIN t : (i < j /\ t[i]) => t[j]
            /\ workers[w].pc \in {"spawned", "searching", "reporting"}
                  => \A i \in DOMAIN t : ~t[i]

\* A search whose info line and bestmove line are both printed.
C10_Witness ==
    \E w \in 1..MaxWorkers : \E i, j \in DOMAIN stdout :
        i < j /\ stdout[i] = <<"info", w>> /\ stdout[j] = <<"bestmove", w>>

\* ------------------------------------------------------------------------
\* Properties of the position command
\* ------------------------------------------------------------------------
\* The position a FEN encodes, every field read from the FEN alone.
fen_position(fen) ==
    LET flag(char, castle) == IF \E i \in DOMAIN fen.castling : fen.castling[i] = char
                              THEN {castle} ELSE {}
    IN  [board |-> new_from_fen(fen.placement),
         game_state |->
            [color |-> IF fen.color = <<"w">> THEN WHITE ELSE BLACK,
             castling |-> flag("K", CASTLING_WH_K) \cup flag("Q", CASTLING_WH_Q) \cup
                          flag("k", CASTLING_BL_K) \cup flag("q", CASTLING_BL_Q),
             en_passant |-> IF fen.en_passant = <<"-">> THEN None
                            ELSE sq_from_string(fen.en_passant),
             halfmove |-> parse_i32(fen.halfmove),
             fullmove |-> parse_i32(fen.fullmove)]]

\* The engine handles the position command PositionInputs[i], which ends
\* with a FEN.
handles_fen(i) ==
    /\ PositionInputs[i][Len(PositionInputs[i])].arg = "Fen"
    /\ engine_rx # <<>>
    /\ Head(engine_rx) = Cmd("UciPosition", i)
    /\ EngineHandleCommand

\* C9: after the engine handles a position command with a FEN, whatever its
\* node was before, the node is the position the FEN encodes: board, side to
\* move, castling rights (those absent from the FEN cleared), en-passant
\* square, halfmove clock and fullmove number.
C9_FenReplacesNode ==
    [][\A i \in DOMAIN PositionInputs :
          handles_fen(i) =>
              node' = fen_position(parse_fen_fields(
                          PositionInputs[i][Len(PositionInputs[i])].val))]_vars

\* ------------------------------------------------------------------------
\* Properties of the search
\* ------------------------------------------------------------------------
root_moves == get_player_moves(workers[1].root.board, workers[1].root.game_state, TRUE)

\* C8: the move reported by the search is one of the legal moves of the root
\* position when there is one, however the search ended; the null move is
\* reported only when the root position has no legal move.
C8_BestMoveLegal ==
    reported # <<>> =>
        IF Len(root_moves) > 0
        THEN reported[1] # <<>> /\ reported[1][1] \in moves_set(root_moves)
        ELSE reported[1] = <<>>

\* A search cancelled before its first node still reports a legal move.
C8_Witness ==
    /\ reported # <<>> /\ reported[1] # <<>>
    /\ result[2] = <<>>
    /\ ~working

\* C11: the root a worker searches is the engine's node as it was when Go
\* was handled; no later step changes it while the worker exists, and no step
\* of a worker changes the engine's node.
C11_RootIsCopy ==
    [][\A w \in 1..MaxWorkers :
          /\ (workers[w].pc = "none" /\ workers'[w].pc # "none") => workers'[w].root = node
          /\ workers[w].pc # "none" => workers'[w].root = workers[w].root
          /\ (workers[w].pc # "none" /\ workers'[w] # workers[w]) => node' = node]_vars

\* A worker searches a position set before its go, and the engine has
\* handled a debug command since it spawned the worker.
C11_Witness ==
    /\ workers[1].pc = "searching"
    /\ workers[1].root # Node_new
    /\ workers[1].root = node
    /\ debug # workers[1].debug

\* The budget of the specification's table for these parameters: <<q, inc>>
\* stands for the bounded budget q + inc, <<>> for no bound.
table_budget(a) ==
    LET time == IF a.color = WHITE THEN a.white_time ELSE a.black_time
        inc == IF a.color = WHITE THEN a.white_inc ELSE a.black_inc
    IN  IF a.move_time >= 0 THEN <<a.move_time, 0>>
        ELSE IF time > 120000 THEN <<60000, 0>>
        ELSE IF time > 0 THEN <<time \div 4, inc>>
        ELSE <<>>

\* C12: set_limits chooses the budget of the table, and once the elapsed
\* milliseconds reach a bounded budget should_stop_search returns true.
C12_TimeBudget ==
    /\ limit_pc # "panic"
    /\ (limit_pc \in {"set", "checked"} /\ table_budget(args) # <<>>) =>
          LET q == table_budget(args)[1]
              inc == table_budget(args)[2]
          IN  /\ IF inc >= 0 THEN time_limit >= 0 /\ time_limit - q = inc
                  ELSE time_limit = q + inc
              /\ (limit_pc = "checked" /\ elapsed_ms - q >= inc) => stop

\* C13: on the board of the node in play no square belongs to both colours,
\* every occupied square is in exactly one piece bitboard and no piece
\* bitboard has a square that is not occupied.
C13_BoardConsistent ==
    /\ node.board.colors[WHITE] \cap node.board.colors[BLACK] = {}
    /\ \A s \in combined(node.board) :
          Cardinality({p \in Pieces : s \in node.board.pieces[p]}) = 1
    /\ combined(node.board) = UNION {node.board.pieces[p] : p \in Pieces}

\* A capture by a piece of another kind was applied with apply_to and unmade.
C13_Witness ==
    /\ phase = "unmade"
    /\ applied[1].capture # None
    /\ applied[1].capture # get_piece_on(node.board, applied[1].source)

\* The squares of the kings of a colour.
kings(board, color) == board.colors[color] \cap board.pieces[KING]

one_king_each(board) ==
    Cardinality(kings(board, WHITE)) = 1 /\ Cardinality(kings(board, BLACK)) = 1

\* C14: a move of the legal move list applied to a position where each side
\* has exactly one king leaves each side with exactly one king, so that
\* find_king returns a square for both colours after every move of the game.
C14_OneKingEach ==
    [][(/\ phase = "idle"
        /\ phase' \in {"applied", "played"}
        /\ one_king_each(node.board)) =>
            /\ one_king_each(node'.board)
            /\ find_king(node'.board, WHITE) # None
            /\ find_king(node'.board, BLACK) # None]_vars

\* C15: a move written by to_uci_string and read back by from_uci_string is
\* the same Move, all fields compared, also when the move has been applied
\* to a board and carries its capture and the castling rights it saved.
C15_UciRoundTrip ==
    \A i \in DOMAIN applied : from_uci_string(to_uci_string(applied[i])) = applied[i]

\* The rank where the pawns of a colour promote.
far_rank(color) == IF color = WHITE THEN POS_MAX ELSE POS_MIN

\* A white pawn on a7 with a8 empty and nothing to take on b8, white to move.
S6_position ==
    /\ phase = "idle"
    /\ node.game_state.color = WHITE
    /\ get_square(node.board, sq(0, 6)) = <<WHITE, PAWN>>
    /\ is_empty(node.board, A8)
    /\ ~is_color(get_square(node.board, sq(1, 7)), BLACK)

C17_MalformedIgnored ==
    [][(/\ alive
        /\ uci_rx # <<>>
        /\ Head(uci_rx).src = "Stdin"
        /\ Head(uci_rx).cmd \in {parse_command(line) : line \in MalformedLines}
        /\ uci_rx' = Tail(uci_rx)) =>
            /\ alive'
            /\ state' = state
            /\ engine_rx' = engine_rx
            /\ stdout' = stdout
            /\ node' = node]_vars

\* C18: when negamax returns no best move for the root, analyze logs
\* "Checkmate is unavoidable." and then reports the first move of the root's
\* legal move list, or no move when the list is empty; the controller prints
\* the report of no move as "bestmove 0000".
C18_NoBestMoveReport ==
    [][/\ (reported = <<>> /\ reported' # <<>> /\ result[2] = <<>>) =>
             /\ engine_rx' = engine_rx \o
                    <<Cmd("Log", "Checkmate is unavoidable."), Cmd("TmpBestMove", reported'[1])>>
             /\ reported'[1] = IF Len(root_moves) > 0 THEN <<root_moves[1]>> ELSE <<>>
       /\ (/\ uci_rx # <<>>
           /\ Head(uci_rx).cmd.type = "BestMove"
           /\ Head(uci_rx).cmd.arg = <<>>
           /\ uci_rx' = Tail(uci_rx)) =>
             stdout' = Append(stdout, <<<<"b", "e", "s", "t", "m", "o", "v", "e", " ",
                                          "0", "0", "0", "0">>, 1>>)]_vars

\* The search of a root without legal move has ended and the controller has
\* printed its answer.
C18_Witness ==
    /\ reported = <<<<>>>>
    /\ result # <<>> /\ result[2] = <<>>
    /\ state = "Ready"
    /\ stdout[Len(stdout)][1] = send_bestmove(<<>>)

\* The node negamax is entered with, the side to move swapped.
swapped(n) == [n EXCEPT !.game_state.color = opposite(@)]

\* C19: for the node of every negamax call, the stats of the node with the
\* side to move swapped are the stats of the node exchanged, and its
\* evaluation is the negation of the evaluation of the node.
C19_EvaluateSymmetric ==
    (frames # <<>> /\ frames[Len(frames)].pc = "enter") =>
        \E stats \in {compute_stats(frames[Len(frames)].node)} :
            \E swapped_stats \in {compute_stats(swapped(frames[Len(frames)].node))} :
                /\ swapped_stats = <<stats[2], stats[1]>>
                /\ evaluate(swapped_stats) = 0 - evaluate(stats)

\* A leaf of the search whose evaluation favours the side to move.
C19_Witness ==
    /\ frames # <<>>
    /\ frames[Len(frames)].pc = "enter"
    /\ frames[Len(frames)].depth = max_depth
    /\ evaluate(compute_stats(frames[Len(frames)].node)) > 0

\* The standard starting position, white to move with all castling rights.
start_node == [board |-> Board_new, game_state |-> GameState_new]

\* The single and double pushes of the eight pawns and the two moves of each
\* knight.
S1_moves ==
    {<<sq(f, 1), sq(f, 1 + len), None>> : f \in 0..7, len \in 1..2} \cup
    {<<sq(1, 0), sq(0, 2), None>>, <<sq(1, 0), sq(2, 2), None>>,
     <<sq(6, 0), sq(5, 2), None>>, <<sq(6, 0), sq(7, 2), None>>}

\* C20: from the starting position get_player_moves returns 20 moves, the 16
\* pawn pushes and the 4 knight moves, each once.
C20_StartingMoves ==
    (phase = "idle" /\ node = start_node) =>
        \E moves \in {get_player_moves(node.board, node.game_state, TRUE)} :
            /\ Len(moves) = 20
            /\ moves_set(moves) = S1_moves
            /\ Cardinality(S1_moves) = 20

\* A knight move of the list is played from the starting position.
C20_Witness ==
    /\ phase = "applied"
    /\ saved = start_node
    /\ applied[1].source = sq(6, 0)
    /\ applied[1].dest = sq(5, 2)


\* ------------------------------------------------------------------------
\* board.rs, rules.rs, stats.rs: the pawns of a board
\* ------------------------------------------------------------------------
\* The d-file from d2 to d7, and e6.
PawnSquares == {sq(3, r) : r \in 1..6} \cup {sq(4, 5)}

\* The board with a pawn of colour place[s] on each square s, None for none.
pawn_board(place) ==
    [colors |-> [c \in Colors |-> {s \in DOMAIN place : place[s] = c}],
     pieces |-> [p \in Pieces |-> IF p = PAWN THEN {s \in DOMAIN place : place[s] # None}
                                  ELSE {}]]

\* The boards asked about, for each colour to play.
PawnInit ==
    /\ \E place \in [PawnSquares -> Colors \cup {None}], color \in Colors :
          node = [board |-> pawn_board(place),
                  game_state |-> [GameState_new EXCEPT !.color = color, !.castling = {}]]
    /\ saved = node
    /\ applied = <<>>
    /\ phase = "idle"
    /\ plies = 0
    /\ UciInit
    /\ SearchIdle
    /\ ClockIdle
    /\ TreeIdle
    /\ PawnIdle

\* The squares a pawn may be pushed to: Board::get_pawn_progresses, and the
\* moves of get_pawn_moves that stay on the file of the pawn (the moves that
\* get_player_moves lists for the square of the pawn).
GetPawnProgresses ==
    /\ progress = <<>>
    /\ board_stats = <<>>
    /\ \E square \in node.board.pieces[PAWN] :
          LET color == get_color_on(node.board, square)
              all == get_player_moves(node.board,
                                      [node.game_state EXCEPT !.color = color], FALSE)
              moves == SelectSeq(all, LAMBDA m : m[1] = square)
          IN  progress' = [square |-> square,
                           color |-> color,
                           bb |-> get_pawn_progresses(node.board, square, color),
                           pushes |-> {moves[i][2] : i \in {j \in DOMAIN moves :
                                          sq_file(moves[j][2]) = sq_file(square)}}]
    /\ UNCHANGED <<board_stats, chessVars, uciVars, searchVars, clockVars, treeVars>>

\* BoardStats::compute for the colour to play.
ComputeStats ==
    /\ progress = <<>>
    /\ board_stats = <<>>
    /\ board_stats' = <<compute(node.board, node.game_state)>>
    /\ UNCHANGED <<progress, chessVars, uciVars, searchVars, clockVars, treeVars>>

PawnNext == GetPawnProgresses \/ ComputeStats

SpecPawns == PawnInit /\ [][PawnNext]_vars

\* ------------------------------------------------------------------------
\* C21 as stated: in the mate in one of the test (mover: king a1, pawn c6,
\* queen h7; enemy king d8; no castling right), a search of two plies returns
\* h7d7 as best move, with white to move and, the colours swapped, with black
\* to move.
\* ------------------------------------------------------------------------
h7d7 == <<sq(7, 6), sq(3, 6), None>>
a1b2 == <<sq(0, 0), sq(1, 1), None>>

returns_leaf ==
    LET n == Len(frames)
        leaf == <<evaluate(compute_stats(frames[n].node)), <<>>>>
    IN  IF n = 1
        THEN frames' = <<>> /\ result' = leaf
        ELSE /\ Len(frames') = n - 1
             /\ frames'[n - 1] = after_sub_node(frames[n - 1], leaf)
             /\ result' = result

C22_StopIsLeaf ==
    [][/\ (/\ frames # <<>>
           /\ frames[Len(frames)].pc = "enter"
           /\ (~working \/ frames[Len(frames)].depth = max_depth \/ time_up)
           /\ frames' # frames) => returns_leaf
       /\ \A i \in DOMAIN frames' : frames'[i].depth <= max_depth
       /\ ~working => \A i \in DOMAIN frames' :
                         frames'[i].pc = "loop"
                            => (i \in DOMAIN frames /\ frames[i].pc = "loop")]_vars

\* The flag alone stopped the call on the root, which has moves.
C22_Witness ==
    /\ ~working
    /\ ~time_up
    /\ root_moves # <<>>
    /\ result = <<evaluate(compute_stats(workers[1].root)), <<>>>>

\* ------------------------------------------------------------------------
\* C23: Move::apply_to clears the castling right of every corner square
\* (a1, h1, a8, h8) that is the source or the destination of the move, also
\* when both are corner squares, and both rights of a colour when the source
\* is e1 or e8; it leaves every other right as it was and saves the mask
\* held before the move in the Move.
\* ------------------------------------------------------------------------
corner_rights(s) ==
    IF s = A1 THEN {CASTLE_WH_Q}
    ELSE IF s = H1 THEN {CASTLE_WH_K}
    ELSE IF s = A8 THEN {CASTLE_BL_Q}
    ELSE IF s = H8 THEN {CASTLE_BL_K}
    ELSE {}

king_rights(s) ==
    IF s = E1 THEN CASTLE_WH_MASK ELSE IF s = E8 THEN CASTLE_BL_MASK ELSE {}

C23_CastlingRightsCleared ==
    [][(phase = "idle" /\ phase' = "applied")
          => LET m == applied'[1]
                 prior == node.game_state.castling
             IN  /\ node'.game_state.castling =
                       prior \ (corner_rights(m.source) \cup corner_rights(m.dest)
                                \cup king_rights(m.source))
                 /\ m.old_castles = prior]_vars

\* ------------------------------------------------------------------------
\* C24: when several moves of a node reach the same best score, negamax
\* returns the first of them in generator order (a later move replaces the
\* best move only with a strictly greater score), so the move returned for
\* a position is fixed by the order of the generator.
\* ------------------------------------------------------------------------
move_value(t, i) == 0 - tree_value(t.subs[i])

first_best(t) ==
    CHOOSE i \in DOMAIN t.moves :
        /\ move_value(t, i) = tree_value(t)
        /\ \A j \in 1..(i - 1) : move_value(t, j) # tree_value(t)

C24_FirstBestMove ==
    (searched # <<>> /\ ~tree.leaf /\ tree_value(tree) > MIN_F32)
        => searched[2] = <<tree.moves[first_best(tree)]>>

\* Two moves reach the best score and the first of them is returned.
C24_Witness ==
    /\ searched # <<>>
    /\ Len(tree.moves) = 2
    /\ tree_value(tree) > MIN_F32
    /\ move_value(tree, 1) = move_value(tree, 2)
    /\ searched[2] = <<tree.moves[1]>>

\* ------------------------------------------------------------------------
\* C29: the cut does not change the result at the root: negamax called with
\* the window (MIN_F32, MAX_F32), with no stop by flag or time, returns the
\* score that negamax without the cut returns, and the move it returns
\* attains that score.
\* ------------------------------------------------------------------------
C29_PruningKeepsRoot ==
    searched # <<>>
        => /\ searched[1] = tree_value(tree)
           /\ searched[2] # <<>>
                 => \E i \in DOMAIN tree.moves :
                       /\ tree.moves[i] = searched[2][1]
                       /\ move_value(tree, i) = searched[1]
           /\ (~tree.leaf /\ tree_value(tree) > MIN_F32) => searched[2] # <<>>

\* A search that cut: it made fewer calls than the tree has nodes.
C29_Witness ==
    /\ searched # <<>>
    /\ searched[3] < tree_size(tree)
    /\ searched[2] # <<>>
    /\ searched[1] = tree_value(tree)

\* ------------------------------------------------------------------------
\* C25: a pawn on its starting rank (rank 2 for white, rank 7 for black) is
\* never given the double-push square when the single-push square is
\* occupied, and no pawn is given an occupied push square; with both squares
\* empty the pawn on its starting rank is given both, and a pawn off its
\* starting rank is given at most the single-push square.
\* ------------------------------------------------------------------------
pushes_as_stated(board, square, color, given) ==
    LET dir == IF color = WHITE THEN 1 ELSE 0 - 1
        single == sq(sq_file(square), sq_rank(square) + dir)
        double == sq(sq_file(square), sq_rank(square) + 2 * dir)
        starts == sq_rank(square) = (IF color = WHITE THEN RANK_2 ELSE RANK_7)
    IN  /\ given \cap combined(board) = {}
        /\ IF starts
           THEN /\ single \in combined(board) => double \notin given
                /\ ({single, double} \cap combined(board) = {}) => given = {single, double}
                /\ given \subseteq {single, double}
           ELSE given \subseteq {single}

C25_PawnPushes ==
    progress # <<>>
        => /\ pushes_as_stated(node.board, progress.square, progress.color, progress.bb)
           /\ pushes_as_stated(node.board, progress.square, progress.color, progress.pushes)

\* The white pawn on d2 with a piece on d3 and none on d4: no push.
C25_Witness ==
    /\ progress # <<>>
    /\ progress.square = sq(3, 1)
    /\ progress.color = WHITE
    /\ sq(3, 2) \in combined(node.board)
    /\ sq(3, 3) \notin combined(node.board)
    /\ progress.bb = {}
    /\ progress.pushes = {}

\* ------------------------------------------------------------------------
\* C26: BoardStats::compute sets num_doubled_pawns to the number of pawns of
\* the computed colour that share their file with another pawn of that
\* colour (white pawns on d4 and d6: 2; with a pawn on another file: 2; with
\* d2 added: 3), for every placement of pawns.
\* ------------------------------------------------------------------------
doubled_pawns(board, color) ==
    LET pawns == board.colors[color] \cap board.pieces[PAWN]
    IN  {s \in pawns : \E t \in pawns : t # s /\ sq_file(t) = sq_file(s)}

C26_DoubledPawns ==
    board_stats # <<>>
        => board_stats[1].num_doubled_pawns =
              Cardinality(doubled_pawns(node.board, node.game_state.color))

\* ------------------------------------------------------------------------
\* C27: the controller enters Working only for a go that it has delivered
\* to the engine: the step that makes it Working puts a UciGo command in the
\* channel of the engine, also when the go line is handled after uci and
\* before the UciChannel message of the engine thread.
\* ------------------------------------------------------------------------
C27_WorkingHasGo ==
    [][(state # "Working" /\ state' = "Working")
          => /\ Len(engine_rx') = Len(engine_rx) + 1
             /\ engine_rx'[Len(engine_rx')].type = "UciGo"]_vars

\* ------------------------------------------------------------------------
\* C28: a Stop handled by the engine after the worker of the current search
\* has sent its best move does not cancel the next search: whatever Stop
\* commands were handled before a Go, the worker spawned for that Go starts
\* with the flag set to true.
\* ------------------------------------------------------------------------
C28_LaterGoStartsTrue ==
    [][\A w \in 1..MaxWorkers :
          (workers[w].pc = "none" /\ workers'[w].pc # "none") => working']_vars

\* The first worker has sent its best move, a Stop handled since has cleared
\* the flag, and the next Go is the command the engine handles next.
C28_Witness ==
    /\ workers[1].pc = "done"
    /\ workers[2].pc = "none"
    /\ ~working
    /\ engine_rx # <<>>
    /\ Head(engine_rx).type = "UciGo"

\* ------------------------------------------------------------------------
\* C30: for a Go the engine accepted, the worker sends exactly one best-move
\* message, on every path through analyze (best move found, none found with
\* legal moves, no legal move), and it is the last message it sends; the
\* controller prints at most one bestmove line for the go.
\* ------------------------------------------------------------------------
\* The best-move messages of the search: sent to the engine, forwarded to
\* the controller, printed.
best_moves_sent ==
    Cardinality({i \in DOMAIN engine_rx : engine_rx[i].type = "TmpBestMove"})
    + Cardinality({i \in DOMAIN uci_rx : uci_rx[i].cmd.type = "BestMove"})
    + Cardinality({i \in DOMAIN stdout : stdout[i][2] = 1})

====
